---------------------------- MODULE Spec2Model ----------------------------
(***************************************************************************)
(* Model of the line-oriented schema subsetting tool (src/main.go, the     *)
(* first `package main`: lines 1-514).                                     *)
(*                                                                         *)
(* Go strings are modelled as sequences of one-character strings, so that  *)
(* the string functions and the regular expressions of the program are     *)
(* computed character by character, as the program computes them.  The     *)
(* input file is the sequence of lines bufio.Scanner yields for it.        *)
(***************************************************************************)
EXTENDS Naturals, Integers, Sequences, FiniteSets

(***************************************************************************)
(* Package strings / unicode, restricted to ASCII.                         *)
(***************************************************************************)
UpperCase == <<"A","B","C","D","E","F","G","H","I","J","K","L","M",
               "N","O","P","Q","R","S","T","U","V","W","X","Y","Z">>
LowerCase == <<"a","b","c","d","e","f","g","h","i","j","k","l","m",
               "n","o","p","q","r","s","t","u","v","w","x","y","z">>
Digits == {"0","1","2","3","4","5","6","7","8","9"}

Range(s) == {s[i] : i \in DOMAIN s}

UpperSet == Range(UpperCase)
LowerSet == Range(LowerCase)

\* unicode.ToLower on one ASCII character
LowerOf == [c \in UpperSet |-> LowerCase[CHOOSE i \in DOMAIN UpperCase : UpperCase[i] = c]]

ToLowerChar(c) == IF c \in UpperSet THEN LowerOf[c] ELSE c

\* strings.ToLower
ToLower(s) == [i \in DOMAIN s |-> ToLowerChar(s[i])]

\* strings.EqualFold (simple case folding; on ASCII, equality of the lowercased strings)
EqualFold(a, b) == Len(a) = Len(b) /\ \A i \in DOMAIN a : ToLowerChar(a[i]) = ToLowerChar(b[i])

\* the regular expression class [a-zA-Z0-9_]
IsWordChar(c) == c \in UpperSet \/ c \in LowerSet \/ c \in Digits \/ c = "_"

\* the regular expression class \s, which is also what strings.TrimSpace trims on ASCII
IsSpace(c) == c \in {" ", "\t", "\n", "\r", "\f"}

\* s[i..] starts with sub  (1-based i)
MatchAt(s, sub, i) ==
    /\ i + Len(sub) - 1 <= Len(s)
    /\ \A k \in DOMAIN sub : s[i + k - 1] = sub[k]

\* s[i..] starts with sub, letter case ignored: a literal under the flag (?i)
MatchFoldAt(s, sub, i) ==
    /\ i + Len(sub) - 1 <= Len(s)
    /\ \A k \in DOMAIN sub : ToLowerChar(s[i + k - 1]) = ToLowerChar(sub[k])

\* index of the first occurrence of sub in s at or after from, 0 when there is none
IndexFrom(s, sub, from) ==
    LET hits == {i \in from..(Len(s) - Len(sub) + 1) : MatchAt(s, sub, i)}
    IN  IF hits = {} THEN 0 ELSE CHOOSE i \in hits : \A j \in hits : i <= j

\* strings.Index, 1-based; 0 when sub does not occur (Go's -1)
Index(s, sub) == IndexFrom(s, sub, 1)

\* strings.Contains
Contains(s, sub) == \E i \in 1..(Len(s) - Len(sub) + 1) : MatchAt(s, sub, i)

\* strings.HasPrefix, strings.HasSuffix, strings.TrimSuffix
HasPrefix(s, p) == MatchAt(s, p, 1)
HasSuffix(s, x) == Len(s) >= Len(x) /\ MatchAt(s, x, Len(s) - Len(x) + 1)
TrimSuffix(s, x) == IF HasSuffix(s, x) THEN SubSeq(s, 1, Len(s) - Len(x)) ELSE s

\* strings.Count(s, c) for a one-character c
Count(s, c) == Cardinality({i \in DOMAIN s : s[i] = c})

\* first index >= i of s that holds no word character (Len(s)+1 if none): the end
\* of a greedy [a-zA-Z0-9_]* from i
RECURSIVE SkipWord(_, _)
SkipWord(s, i) == IF i <= Len(s) /\ IsWordChar(s[i]) THEN SkipWord(s, i + 1) ELSE i

\* first index >= i of s that holds no white space: the end of a greedy \s* from i
RECURSIVE SkipSpace(_, _)
SkipSpace(s, i) == IF i <= Len(s) /\ IsSpace(s[i]) THEN SkipSpace(s, i + 1) ELSE i

\* last index <= i of s that holds no white space, 0 when there is none
RECURSIVE SkipSpaceBack(_, _)
SkipSpaceBack(s, i) == IF i >= 1 /\ IsSpace(s[i]) THEN SkipSpaceBack(s, i - 1) ELSE i

\* strings.TrimSpace
TrimSpace(s) == SubSeq(s, SkipSpace(s, 1), SkipSpaceBack(s, Len(s)))

\* number of non-overlapping occurrences of sep in s at or after from:
\* len(strings.Split(s, sep)) - 1 for from = 1
RECURSIVE CountSep(_, _, _)
CountSep(s, sep, from) ==
    LET at == IndexFrom(s, sep, from)
    IN  IF at = 0 THEN 0 ELSE 1 + CountSep(s, sep, at + Len(sep))

\* strings.Split(s, sep)[0]: the text before the first occurrence of sep
SplitFirst(s, sep) == IF Index(s, sep) = 0 THEN s ELSE SubSeq(s, 1, Index(s, sep) - 1)

\* strings.Split(s, sep)[1], given that sep occurs in s
SplitSecond(s, sep) ==
    LET rest == SubSeq(s, Index(s, sep) + Len(sep), Len(s))
    IN  SplitFirst(rest, sep)

NL == <<"\n">>

\* bufio.ScanLines on s from index i on: the text between line feeds, a trailing
\* carriage return dropped, no token for an empty rest
RECURSIVE ScanLinesFrom(_, _)
ScanLinesFrom(s, i) ==
    IF i > Len(s) THEN <<>>
    ELSE LET at == IndexFrom(s, NL, i)
             end == IF at = 0 THEN Len(s) ELSE at - 1
             raw == SubSeq(s, i, end)
             tok == IF raw # <<>> /\ raw[Len(raw)] = "\r" THEN SubSeq(raw, 1, Len(raw) - 1) ELSE raw
         IN  IF at = 0 THEN <<tok>> ELSE <<tok>> \o ScanLinesFrom(s, at + 1)

\* bufio.Scanner over strings.NewReader(s): the lines of s
ScanLines(s) == ScanLinesFrom(s, 1)

\* smallest element of a non-empty set of numbers
Min(S) == CHOOSE x \in S : \A y \in S : x <= y

(***************************************************************************)
(* String constants of the program.                                        *)
(***************************************************************************)
S_CREATE_TABLE == <<"C","R","E","A","T","E"," ","T","A","B","L","E">>
S_CREATE_TYPE == <<"C","R","E","A","T","E"," ","T","Y","P","E">>
S_AS_ENUM == <<"A","S"," ","E","N","U","M">>
S_TYPE == <<"T","Y","P","E">>
S_public == <<"p","u","b","l","i","c">>
S_CLOSE == <<")",";">>
S_DOT == <<".">>
S_id_suffix == <<"_","i","d">>
S_s == <<"s">>
S_DROP_HEAD == <<"A","L","T","E","R"," ","T","A","B","L","E"," ","I","F"," ","E","X","I","S","T","S"," ","O","N","L","Y"," ">>
S_DROP_MID == <<" ","D","R","O","P"," ","C","O","N","S","T","R","A","I","N","T"," ","I","F"," ","E","X","I","S","T","S"," ">>
S_fk_rails == <<"f","k","_","r","a","i","l","s","_">>
S_ADD_CONSTRAINT == <<"A","D","D"," ","C","O","N","S","T","R","A","I","N","T">>
S_FOREIGN_KEY == <<"F","O","R","E","I","G","N"," ","K","E","Y">>
S_REFERENCES == <<"R","E","F","E","R","E","N","C","E","S"," ">>
S_DEFAULT == <<"D","E","F","A","U","L","T">>
S_NOT_NULL == <<"N","O","T"," ","N","U","L","L">>
S_NOT == <<"N","O","T">>
S_NULL == <<"N","U","L","L">>
S_public_dot == <<"p","u","b","l","i","c",".">>
S_id == <<"i","d">>

(***************************************************************************)
(* parseTables                                                             *)
(***************************************************************************)
\* createTablePattern: (?i)^CREATE TABLE
createTablePattern(line) == MatchFoldAt(line, S_CREATE_TABLE, 1)

\* `"?\s*\(` at index k of the line: an optional closing quote, white space, "("
tablePatternTail(line, k) ==
    LET q == IF k <= Len(line) /\ line[k] = "\"" THEN k + 1 ELSE k
        r == SkipSpace(line, q)
    IN  r <= Len(line) /\ line[r] = "("

\* tablePattern tried at index p of the line:
\*   (?i)CREATE TABLE\s+"?(?:([a-zA-Z0-9_]+)\.)?([a-zA-Z0-9_]+)"?\s*\(
\* <<>> when it does not match there, else <<[schema, name]>> (schema <<>> when the
\* optional group did not take part)
tablePatternAt(line, p) ==
    LET a == p + Len(S_CREATE_TABLE)
        b == SkipSpace(line, a)
        c == IF b <= Len(line) /\ line[b] = "\"" THEN b + 1 ELSE b
        e1 == SkipWord(line, c)
        e2 == SkipWord(line, e1 + 1)
    IN  IF ~MatchFoldAt(line, S_CREATE_TABLE, p) \/ b = a \/ e1 = c THEN <<>>
        ELSE IF e1 <= Len(line) /\ line[e1] = "." /\ e2 > e1 + 1 /\ tablePatternTail(line, e2)
             THEN <<[schema |-> SubSeq(line, c, e1 - 1), name |-> SubSeq(line, e1 + 1, e2 - 1)]>>
        ELSE IF tablePatternTail(line, e1)
             THEN <<[schema |-> <<>>, name |-> SubSeq(line, c, e1 - 1)]>>
        ELSE <<>>

\* tablePattern.FindStringSubmatch(line): the leftmost match
tablePattern(line) ==
    LET starts == {p \in DOMAIN line : tablePatternAt(line, p) # <<>>}
    IN  IF starts = {} THEN <<>> ELSE tablePatternAt(line, Min(starts))

\* strings.Count(line, "(") - strings.Count(line, ")")
ParenDelta(line) == Count(line, "(") - Count(line, ")")

\* the loop of parseTables from line i on; cur is <<>> for currentTable == nil
\* parseTables emitting at the end of input the table that is still open
RECURSIVE parseTablesFrom_FlushAtEnd(_, _, _, _, _)
parseTablesFrom_FlushAtEnd(lines, i, tables, cur, depth) ==
    IF i > Len(lines) THEN tables \o cur
    ELSE LET line == lines[i] IN
         IF cur = <<>>
         THEN IF createTablePattern(line) /\ tablePattern(line) # <<>>
              THEN LET m == tablePattern(line)[1]
                       t == [Schema |-> IF m.schema # <<>> THEN m.schema ELSE S_public,
                             Name |-> m.name,
                             SQL |-> line \o NL]
                   IN  parseTablesFrom_FlushAtEnd(lines, i + 1, tables, <<t>>, ParenDelta(line))
              ELSE parseTablesFrom_FlushAtEnd(lines, i + 1, tables, cur, depth)
         ELSE LET t == [cur[1] EXCEPT !.SQL = @ \o line \o NL]
                  d == depth + ParenDelta(line)
              IN  IF d <= 0 /\ Contains(line, S_CLOSE)
                  THEN parseTablesFrom_FlushAtEnd(lines, i + 1, Append(tables, t), <<>>, 0)
                  ELSE parseTablesFrom_FlushAtEnd(lines, i + 1, tables, <<t>>, d)

RECURSIVE parseTablesFrom(_, _, _, _, _)
parseTablesFrom(lines, i, tables, cur, depth) ==
    IF i > Len(lines) THEN tables
    ELSE LET line == lines[i] IN
         IF cur = <<>>
         THEN IF createTablePattern(line) /\ tablePattern(line) # <<>>
              THEN LET m == tablePattern(line)[1]
                       t == [Schema |-> IF m.schema # <<>> THEN m.schema ELSE S_public,
                             Name |-> m.name,
                             SQL |-> line \o NL]
                   IN  parseTablesFrom(lines, i + 1, tables, <<t>>, ParenDelta(line))
              ELSE parseTablesFrom(lines, i + 1, tables, cur, depth)
         ELSE LET t == [cur[1] EXCEPT !.SQL = @ \o line \o NL]
                  d == depth + ParenDelta(line)
              IN  IF d <= 0 /\ Contains(line, S_CLOSE)
                  THEN parseTablesFrom(lines, i + 1, Append(tables, t), <<>>, 0)
                  ELSE parseTablesFrom(lines, i + 1, tables, <<t>>, d)

parseTables(lines) == parseTablesFrom(lines, 1, <<>>, <<>>, 0)

(***************************************************************************)
(* parseEnums                                                              *)
(***************************************************************************)
\* the text of the opening line before "AS ENUM"
enumHead(line) == SplitFirst(line, S_AS_ENUM)

\* the condition under which an opening line starts an enum: both keywords occur
\* and the head splits on "." into exactly two parts
enumLineStarts(line) ==
    /\ Contains(line, S_CREATE_TYPE)
    /\ Contains(line, S_AS_ENUM)
    /\ CountSep(enumHead(line), S_DOT, 1) = 1

\* on a line that starts an enum, strings.Split(parts[0], "TYPE")[1] is an index
\* out of range when parts[0] holds no "TYPE": the run panics
enumLinePanics(line) ==
    ~Contains(SplitFirst(enumHead(line), S_DOT), S_TYPE)

\* the schema taken as all of parts[0], the keywords before it included
enumOfLine_WholeFirstPart(line) ==
    LET head == enumHead(line)
    IN  [Schema |-> TrimSpace(SplitFirst(head, S_DOT)),
         Name |-> TrimSpace(SubSeq(head, Index(head, S_DOT) + 1, Len(head))),
         SQL |-> line \o NL]

enumOfLine(line) ==
    LET head == enumHead(line)
        part0 == SplitFirst(head, S_DOT)
        part1 == SubSeq(head, Index(head, S_DOT) + 1, Len(head))
    IN  [Schema |-> TrimSpace(SplitSecond(part0, S_TYPE)),
         Name |-> TrimSpace(part1),
         SQL |-> line \o NL]

\* the loop of parseEnums from line i on; the result is <<>> when the run panics
RECURSIVE parseEnumsFrom(_, _, _, _)
parseEnumsFrom(lines, i, enums, cur) ==
    IF i > Len(lines) THEN [enums |-> enums, panic |-> FALSE]
    ELSE LET line == lines[i] IN
         IF cur = <<>>
         THEN IF ~enumLineStarts(line) THEN parseEnumsFrom(lines, i + 1, enums, cur)
              ELSE IF enumLinePanics(line) THEN [enums |-> enums, panic |-> TRUE]
              ELSE parseEnumsFrom(lines, i + 1, enums, <<enumOfLine(line)>>)
         ELSE LET e == [cur[1] EXCEPT !.SQL = @ \o line \o NL]
              IN  IF Contains(line, S_CLOSE)
                  THEN parseEnumsFrom(lines, i + 1, Append(enums, e), <<>>)
                  ELSE parseEnumsFrom(lines, i + 1, enums, <<e>>)

parseEnums(lines) == parseEnumsFrom(lines, 1, <<>>, <<>>)

(***************************************************************************)
(* parseForeignKeys                                                        *)
(***************************************************************************)
\* dropPattern tried at index p of the line:
\*   ALTER TABLE IF EXISTS ONLY (\w+)\.(\w+) DROP CONSTRAINT IF EXISTS (fk_rails_\w+);
dropPatternAt(line, p) ==
    LET a == p + Len(S_DROP_HEAD)
        e1 == SkipWord(line, a)
        e2 == SkipWord(line, e1 + 1)
        n == e2 + Len(S_DROP_MID)
        e3 == SkipWord(line, n)
    IN  IF /\ MatchAt(line, S_DROP_HEAD, p)
           /\ e1 > a
           /\ e1 <= Len(line) /\ line[e1] = "."
           /\ e2 > e1 + 1
           /\ MatchAt(line, S_DROP_MID, e2)
           /\ MatchAt(line, S_fk_rails, n)
           /\ e3 > n + Len(S_fk_rails)
           /\ e3 <= Len(line) /\ line[e3] = ";"
        THEN <<[schema |-> SubSeq(line, a, e1 - 1),
                table |-> SubSeq(line, e1 + 1, e2 - 1),
                constraint |-> SubSeq(line, n, e3 - 1)]>>
        ELSE <<>>

\* dropPattern.FindStringSubmatch(line): the leftmost match
dropPattern(line) ==
    LET starts == {p \in DOMAIN line : dropPatternAt(line, p) # <<>>}
    IN  IF starts = {} THEN <<>> ELSE dropPatternAt(line, Min(starts))

\* m[k] = v on a Go map
MapPut(m, k, v) == [x \in (DOMAIN m) \cup {k} |-> IF x = k THEN v ELSE m[x]]

\* first pass: constraint name -> "schema.table"
RECURSIVE constraintMapFrom(_, _, _)
constraintMapFrom(lines, i, m) ==
    IF i > Len(lines) THEN m
    ELSE LET d == dropPattern(lines[i]) IN
         IF d # <<>>
         THEN constraintMapFrom(lines, i + 1,
                  MapPut(m, d[1].constraint, d[1].schema \o S_DOT \o d[1].table))
         ELSE constraintMapFrom(lines, i + 1, m)

\* refPattern tried at index p: REFERENCES ([a-zA-Z0-9_]+)\.([a-zA-Z0-9_]+)
refPatternAt(line, p) ==
    LET a == p + Len(S_REFERENCES)
        e1 == SkipWord(line, a)
        e2 == SkipWord(line, e1 + 1)
    IN  IF /\ MatchAt(line, S_REFERENCES, p)
           /\ e1 > a
           /\ e1 <= Len(line) /\ line[e1] = "."
           /\ e2 > e1 + 1
        THEN <<[schema |-> SubSeq(line, a, e1 - 1), table |-> SubSeq(line, e1 + 1, e2 - 1)]>>
        ELSE <<>>

refPattern(line) ==
    LET starts == {p \in DOMAIN line : refPatternAt(line, p) # <<>>}
    IN  IF starts = {} THEN <<>> ELSE refPatternAt(line, Min(starts))

\* the body of the second loop for one line: <<>> or the one ForeignKey of the line
foreignKeyOfLine(line, constraintMap) ==
    IF ~(Contains(line, S_ADD_CONSTRAINT) /\ Contains(line, S_FOREIGN_KEY)) THEN <<>>
    ELSE IF CountSep(line, S_ADD_CONSTRAINT, 1) # 1 THEN <<>>
    ELSE LET constraintPart == TrimSpace(SubSeq(line, Index(line, S_ADD_CONSTRAINT) + Len(S_ADD_CONSTRAINT), Len(line)))
             constraintName == SplitFirst(constraintPart, <<" ">>)
         IN  IF constraintName \notin DOMAIN constraintMap THEN <<>>
             ELSE LET fromTable == constraintMap[constraintName]
                      refMatches == refPattern(line)
                  IN  IF CountSep(fromTable, S_DOT, 1) # 1 \/ refMatches = <<>> THEN <<>>
                      ELSE <<[SQL |-> line,
                              FromSchema |-> SplitFirst(fromTable, S_DOT),
                              FromTable |-> SubSeq(fromTable, Index(fromTable, S_DOT) + 1, Len(fromTable)),
                              ToSchema |-> refMatches[1].schema,
                              ToTable |-> refMatches[1].table]>>

RECURSIVE foreignKeysFrom(_, _, _, _)
foreignKeysFrom(lines, i, constraintMap, fks) ==
    IF i > Len(lines) THEN fks
    ELSE foreignKeysFrom(lines, i + 1, constraintMap, fks \o foreignKeyOfLine(lines[i], constraintMap))

\* one pass: a line sees only the constraint names recorded on the lines before it
parseForeignKeys_SinglePass(lines) ==
    LET RECURSIVE from(_)
        from(i) ==
            IF i > Len(lines) THEN <<>>
            ELSE foreignKeyOfLine(lines[i], constraintMapFrom(SubSeq(lines, 1, i), 1, <<>>)) \o from(i + 1)
    IN  from(1)

parseForeignKeys(lines) ==
    foreignKeysFrom(lines, 1, constraintMapFrom(lines, 1, <<>>), <<>>)

(***************************************************************************)
(* filterTablesByPrefix, findRelatedTables                                 *)
(***************************************************************************)
\* Go map iteration order is unspecified: a range over a map may yield its
\* entries in any order.  The sequences over S that hold each element once.
Orderings(S) ==
    {p \in [1..Cardinality(S) -> S] : \A x \in S : \E i \in DOMAIN p : p[i] = x}

\* the values of a map
MapValues(m) == {m[k] : k \in DOMAIN m}

RECURSIVE ConcatAll(_)
ConcatAll(ss) == IF ss = <<>> THEN <<>> ELSE Head(ss) \o ConcatAll(Tail(ss))

\* the key of relatedMap: otherTable.Schema+"."+otherTable.Name
TableKey(t) == t.Schema \o S_DOT \o t.Name

\* isTableInList comparing the schema of a list entry with the table's name
isTableInList_SchemaAsName(table, list) ==
    \E i \in DOMAIN list : list[i].Schema = table.Name /\ list[i].Name = table.Name

\* package-level isTableInList: exact comparison of Schema and Name
isTableInList(table, list) ==
    \E i \in DOMAIN list : list[i].Schema = table.Schema /\ list[i].Name = table.Name

\* filterTablesByPrefix without the delimiter: strings.HasPrefix(tableName, prefix)
filterTablesByPrefix_NoDelimiter(tables, prefix) ==
    LET lowerPrefix == ToLower(prefix)
        keep(table) == HasPrefix(ToLower(table.Name), lowerPrefix)
    IN  SelectSeq(tables, keep)

filterTablesByPrefix(tables, prefix) ==
    LET lowerPrefix == ToLower(prefix)
        keep(table) == HasPrefix(ToLower(table.Name), lowerPrefix \o <<"_">>)
    IN  SelectSeq(tables, keep)

\* the class [a-zA-Z0-9_\(\),\s] of columnPattern
IsColumnTailChar(c) == IsWordChar(c) \/ c \in {"(", ")", ","} \/ IsSpace(c)

\* columnPattern.FindStringSubmatch(line)[1] for
\*   (?i)\s*([a-zA-Z0-9_]+)\s+[a-zA-Z0-9_\(\),\s]+
\* The leftmost match takes the first maximal run of word characters that is
\* followed by a white space and then by a character of the tail class; <<>>
\* when the line has none, else <<that run>>.
columnPattern(line) ==
    LET isStart(a) == IsWordChar(line[a]) /\ (a = 1 \/ ~IsWordChar(line[a - 1]))
        fits(a) ==
            LET e == SkipWord(line, a)
            IN  /\ e + 1 <= Len(line)
                /\ IsSpace(line[e])
                /\ IsColumnTailChar(line[e + 1])
        starts == {a \in DOMAIN line : isStart(a) /\ fits(a)}
    IN  IF starts = {} THEN <<>>
        ELSE <<SubSeq(line, Min(starts), SkipWord(line, Min(starts)) - 1)>>

\* the first pass trying the singular form only
outboundOfLine_SingularOnly(line, filteredTables, allTables) ==
    LET matches == columnPattern(line)
        columnName == ToLower(matches[1])
        singularName == TrimSuffix(columnName, S_id_suffix)
        hit(otherTable) ==
            /\ ToLower(otherTable.Name) = singularName
            /\ ~isTableInList(otherTable, filteredTables)
    IN  IF matches = <<>> THEN <<>>
        ELSE IF ~HasSuffix(columnName, S_id_suffix) THEN <<>>
        ELSE SelectSeq(allTables, hit)

\* first pass, one line of a filtered table: the tables of allTables it puts into
\* relatedMap, in order
outboundOfLine(line, filteredTables, allTables) ==
    LET matches == columnPattern(line)
        columnName == ToLower(matches[1])
        referencedTableBase == TrimSuffix(columnName, S_id_suffix)
        singularName == referencedTableBase
        pluralName == referencedTableBase \o S_s
        hit(otherTable) ==
            LET tableName == ToLower(otherTable.Name)
            IN  /\ tableName = singularName \/ tableName = pluralName
                /\ ~isTableInList(otherTable, filteredTables)
    IN  IF matches = <<>> THEN <<>>
        ELSE IF ~HasSuffix(columnName, S_id_suffix) THEN <<>>
        ELSE SelectSeq(allTables, hit)

\* first pass, one filtered table
outboundOfTable(table, filteredTables, allTables) ==
    LET lines == ScanLines(table.SQL)
    IN  ConcatAll([i \in DOMAIN lines |-> outboundOfLine(lines[i], filteredTables, allTables)])

RECURSIVE PutTables(_, _)
PutTables(m, ts) ==
    IF ts = <<>> THEN m ELSE PutTables(MapPut(m, TableKey(Head(ts)), Head(ts)), Tail(ts))

\* relatedMap after the first pass
firstPass(filteredTables, allTables) ==
    PutTables(<<>>, ConcatAll([i \in DOMAIN filteredTables |->
                                  outboundOfTable(filteredTables[i], filteredTables, allTables)]))

\* strings.TrimSuffix(table.Name, "s")
inboundSingular(table) == TrimSuffix(table.Name, S_s)

\* second pass, the scan of otherTable for one filtered table: some line holds the
\* column expectedPattern
inboundHit(table, otherTable) ==
    LET singularName == inboundSingular(table)
        expectedPattern == ToLower(singularName \o S_id_suffix)
        lines == ScanLines(otherTable.SQL)
    IN  \E i \in DOMAIN lines :
            /\ columnPattern(lines[i]) # <<>>
            /\ ToLower(columnPattern(lines[i])[1]) = expectedPattern

\* second pass from filtered table fi, other table oi on
RECURSIVE secondPassFrom(_, _, _, _, _)
secondPassFrom(filteredTables, allTables, fi, oi, relatedMap) ==
    IF fi > Len(filteredTables) THEN relatedMap
    ELSE IF oi > Len(allTables) THEN secondPassFrom(filteredTables, allTables, fi + 1, 1, relatedMap)
    ELSE LET otherTable == allTables[oi]
             skip == isTableInList(otherTable, filteredTables)
                         \/ TableKey(otherTable) \in DOMAIN relatedMap
         IN  IF ~skip /\ inboundHit(filteredTables[fi], otherTable)
             THEN secondPassFrom(filteredTables, allTables, fi, oi + 1,
                                 MapPut(relatedMap, TableKey(otherTable), otherTable))
             ELSE secondPassFrom(filteredTables, allTables, fi, oi + 1, relatedMap)

\* relatedMap when findRelatedTables converts it to a slice
relatedMapOf(filteredTables, allTables) ==
    secondPassFrom(filteredTables, allTables, 1, 1, firstPass(filteredTables, allTables))

\* the tables related to the related tables taken in as well
findRelatedTables_TwoHops(filteredTables, allTables) ==
    LET first == MapValues(relatedMapOf(filteredTables, allTables))
        hop == CHOOSE s \in Orderings(first) : TRUE
        second == MapValues(relatedMapOf(hop, allTables))
    IN  Orderings(first \cup {t \in second : ~isTableInList(t, filteredTables)})

\* the slices findRelatedTables can return: the values of relatedMap in any order
findRelatedTables(filteredTables, allTables) ==
    Orderings(MapValues(relatedMapOf(filteredTables, allTables)))

(***************************************************************************)
(* findUsedEnums                                                           *)
(***************************************************************************)
\* index of the first ":" of s at or after i, Len(s)+1 when there is none
RECURSIVE SkipToColon(_, _)
SkipToColon(s, i) == IF i <= Len(s) /\ s[i] # ":" THEN SkipToColon(s, i + 1) ELSE i

\* enumPattern tried at index p of s:
\*   (?i)public\.[a-zA-Z0-9_]+\b(?:\s+(?:DEFAULT\s+[^:]+::|NOT\s+NULL))?
\* 0 when it does not match there, else the index after the match
enumPatternEnd(s, p) ==
    LET w == p + Len(S_public_dot)
        e == SkipWord(s, w)
        g == SkipSpace(s, e)
        dflt == g + Len(S_DEFAULT)
        colon == SkipToColon(s, dflt)
        nul == SkipSpace(s, g + Len(S_NOT))
    IN  IF ~MatchFoldAt(s, S_public_dot, p) \/ e = w THEN 0
        ELSE IF g = e THEN e
        ELSE IF /\ MatchFoldAt(s, S_DEFAULT, g)
                /\ dflt <= Len(s) /\ IsSpace(s[dflt])
                /\ colon >= dflt + 2
                /\ MatchAt(s, <<":", ":">>, colon)
             THEN colon + 2
        ELSE IF /\ MatchFoldAt(s, S_NOT, g)
                /\ nul > g + Len(S_NOT)
                /\ MatchFoldAt(s, S_NULL, nul)
             THEN nul + Len(S_NULL)
        ELSE e

\* enumPattern.FindAllString(s, -1) from index i on: the successive leftmost
\* matches, none overlapping
RECURSIVE enumPatternFrom(_, _)
enumPatternFrom(s, i) ==
    LET starts == {p \in i..Len(s) : enumPatternEnd(s, p) # 0}
    IN  IF starts = {} THEN <<>>
        ELSE LET p == Min(starts)
                 e == enumPatternEnd(s, p)
             IN  <<SubSeq(s, p, e - 1)>> \o enumPatternFrom(s, e)

\* the clean-up of one match
enumTypeName(match) ==
    TrimSpace(SplitFirst(TrimSpace(SplitFirst(match, S_DEFAULT)), S_NOT_NULL))

\* the type names found in the SQL of one table
enumTypeNames(table) ==
    LET matches == enumPatternFrom(table.SQL, 1)
    IN  {enumTypeName(matches[i]) : i \in DOMAIN matches}

EnumFullName(enum) == enum.Schema \o S_DOT \o enum.Name

\* the map usedEnums when findUsedEnums converts it to a slice
RECURSIVE usedEnumsFrom(_, _, _, _, _)
usedEnumsFrom(tables, allEnums, ti, ei, usedEnums) ==
    IF ti > Len(tables) THEN usedEnums
    ELSE IF ei > Len(allEnums) THEN usedEnumsFrom(tables, allEnums, ti + 1, 1, usedEnums)
    ELSE LET enum == allEnums[ei]
         IN  IF \E typeName \in enumTypeNames(tables[ti]) : EqualFold(typeName, EnumFullName(enum))
             THEN usedEnumsFrom(tables, allEnums, ti, ei + 1, MapPut(usedEnums, EnumFullName(enum), enum))
             ELSE usedEnumsFrom(tables, allEnums, ti, ei + 1, usedEnums)

usedEnumsMap(tables, allEnums) == usedEnumsFrom(tables, allEnums, 1, 1, <<>>)

\* the slices findUsedEnums can return
findUsedEnums(tables, allEnums) == Orderings(MapValues(usedEnumsMap(tables, allEnums)))

(***************************************************************************)
(* findRelevantForeignKeys                                                 *)
(***************************************************************************)
\* the closure isWhitelisted: the schema is not looked at
isWhitelisted(schema, name, whitelist) ==
    \E i \in DOMAIN whitelist : EqualFold(name, whitelist[i])

\* the closure isTableInList of findRelevantForeignKeys
isTableInListFold(schema, name, tables) ==
    \E i \in DOMAIN tables : EqualFold(tables[i].Schema, schema) /\ EqualFold(tables[i].Name, name)

\* the test of findRelevantForeignKeys counting the related tables as well
fkIsRelevant_OrRelated(fk, filteredTables, relatedTables, whitelist) ==
    \/ isTableInListFold(fk.FromSchema, fk.FromTable, filteredTables \o relatedTables)
    \/ isTableInListFold(fk.ToSchema, fk.ToTable, filteredTables \o relatedTables)
    \/ isWhitelisted(fk.FromSchema, fk.FromTable, whitelist)
    \/ isWhitelisted(fk.ToSchema, fk.ToTable, whitelist)

\* the test `fromFiltered || toFiltered || fromWhitelisted || toWhitelisted`
fkIsRelevant(fk, filteredTables, relatedTables, whitelist) ==
    LET fromFiltered == isTableInListFold(fk.FromSchema, fk.FromTable, filteredTables)
        toFiltered == isTableInListFold(fk.ToSchema, fk.ToTable, filteredTables)
        fromWhitelisted == isWhitelisted(fk.FromSchema, fk.FromTable, whitelist)
        toWhitelisted == isWhitelisted(fk.ToSchema, fk.ToTable, whitelist)
    IN  fromFiltered \/ toFiltered \/ fromWhitelisted \/ toWhitelisted

RECURSIVE relevantFKsFrom(_, _, _, _, _, _)
relevantFKsFrom(filteredTables, relatedTables, whitelist, allForeignKeys, i, relevant) ==
    IF i > Len(allForeignKeys) THEN relevant
    ELSE LET fk == allForeignKeys[i]
         IN  relevantFKsFrom(filteredTables, relatedTables, whitelist, allForeignKeys, i + 1,
                 IF fkIsRelevant(fk, filteredTables, relatedTables, whitelist)
                 THEN MapPut(relevant, fk.SQL, fk) ELSE relevant)

relevantFKsMap(filteredTables, relatedTables, whitelist, allForeignKeys) ==
    relevantFKsFrom(filteredTables, relatedTables, whitelist, allForeignKeys, 1, <<>>)

\* every relevant foreign key appended to a slice, no map in between
findRelevantForeignKeys_Appended(filteredTables, relatedTables, whitelist, allForeignKeys) ==
    {SelectSeq(allForeignKeys, LAMBDA fk : fkIsRelevant(fk, filteredTables, relatedTables, whitelist))}

\* the slices findRelevantForeignKeys can return
findRelevantForeignKeys(filteredTables, relatedTables, whitelist, allForeignKeys) ==
    Orderings(MapValues(relevantFKsMap(filteredTables, relatedTables, whitelist, allForeignKeys)))

(***************************************************************************)
(* main: the text written to filtered_tables.sql                           *)
(***************************************************************************)
L_ENUMS == <<"-","-"," ","E","n","u","m"," ","t","y","p","e"," ","d","e","f","i","n","i","t","i","o","n","s","\n">>
L_PREFIX == <<"-","-"," ","T","a","b","l","e","s"," ","w","i","t","h"," ","p","r","e","f","i","x","\n">>
L_RELATED == <<"\n","-","-"," ","R","e","l","a","t","e","d"," ","t","a","b","l","e","s","\n">>
L_FULL == <<"\n","-","-"," ","F","u","l","l"," ","d","e","f","i","n","i","t","i","o","n"," ","f","o","r"," ","w","h","i","t","e","l","i","s","t","e","d"," ","t","a","b","l","e","\n">>
L_FKS == <<"\n","-","-"," ","F","o","r","e","i","g","n"," ","k","e","y"," ","c","o","n","s","t","r","a","i","n","t","s","\n">>
S_STUB_INDENT == <<"\n"," "," "," "," ">>
S_STUB_CLOSE == <<"\n",")",";","\n","\n">>

\* the indexes at which (?m)^ matches: the start of the text and after each "\n"
LineStarts(s) == {p \in DOMAIN s : p = 1 \/ s[p - 1] = "\n"}

\* first index >= i of s holding "(" or "\n", Len(s)+1 when there is none
RECURSIVE SkipToParen(_, _)
SkipToParen(s, i) == IF i <= Len(s) /\ s[i] \notin {"(", "\n"} THEN SkipToParen(s, i + 1) ELSE i

\* index of the first "," of s at or after i, Len(s)+1 when there is none
RECURSIVE SkipToComma(_, _)
SkipToComma(s, i) == IF i <= Len(s) /\ s[i] # "," THEN SkipToComma(s, i + 1) ELSE i

\* (?m)^CREATE TABLE.*?\( tried at line start p: the index of its last character, or 0
createTableLineEnd(s, p) ==
    LET k == SkipToParen(s, p + Len(S_CREATE_TABLE))
    IN  IF MatchAt(s, S_CREATE_TABLE, p) /\ k <= Len(s) /\ s[k] = "(" THEN k ELSE 0

\* regexp.MustCompile(`(?m)^CREATE TABLE.*?\(`).FindString(table.SQL)
createTableLine(sql) ==
    LET starts == {p \in LineStarts(sql) : createTableLineEnd(sql, p) # 0}
    IN  IF starts = {} THEN <<>> ELSE SubSeq(sql, Min(starts), createTableLineEnd(sql, Min(starts)))

\* (?m)^\s*id\s+[^,]+ tried at line start p: the index after the match, or 0.
\* \s and [^,] both match "\n", so the match runs to the next comma of the text.
idLineEnd(s, p) ==
    LET w == SkipSpace(s, p)
        a == w + Len(S_id)
        c == SkipToComma(s, a)
    IN  IF MatchAt(s, S_id, w) /\ a <= Len(s) /\ IsSpace(s[a]) /\ c >= a + 2 THEN c ELSE 0

\* regexp.MustCompile(`(?m)^\s*id\s+[^,]+`).FindString(table.SQL)
idLine(sql) ==
    LET starts == {p \in LineStarts(sql) : idLineEnd(sql, p) # 0}
    IN  IF starts = {} THEN <<>> ELSE SubSeq(sql, Min(starts), idLineEnd(sql, Min(starts)) - 1)

\* fmt.Fprintf(out, "%s\n    %s\n);\n\n", createTableLine, idLine)
stubText(sql) == createTableLine(sql) \o S_STUB_INDENT \o idLine(sql) \o S_STUB_CLOSE

\* the loop `for _, whitelist := range whitelistTables` of main
isWhitelistedTable(table, whitelist) ==
    \E i \in DOMAIN whitelist : EqualFold(table.Name, whitelist[i])

\* tablesToCheckForEnums
tablesToCheckForEnums(filtered, related, whitelist) ==
    LET wl(table) == isWhitelistedTable(table, whitelist)
    IN  filtered \o SelectSeq(related, wl)

\* One record per call of fmt.Fprint on the output file: text is what the call
\* writes; kind and key say which call it is and for which entity.
Write(kind, key, text) == [kind |-> kind, key |-> key, text |-> text]

enumSection(used) ==
    IF Len(used) > 0
    THEN <<Write("enum_label", <<>>, L_ENUMS)>>
         \o [i \in DOMAIN used |-> Write("enum", EnumFullName(used[i]), used[i].SQL)]
         \o <<Write("blank", <<>>, NL)>>
    ELSE <<>>

prefixSection(filtered) ==
    <<Write("prefix_label", <<>>, L_PREFIX)>>
    \o [i \in DOMAIN filtered |-> Write("table", TableKey(filtered[i]), filtered[i].SQL)]

\* the stub written whenever the header line is found, an id line or not
relatedWrites_HeaderOnly(table, whitelist) ==
    IF isWhitelistedTable(table, whitelist)
    THEN <<Write("full_label", <<>>, L_FULL), Write("full", TableKey(table), table.SQL)>>
    ELSE IF createTableLine(table.SQL) # <<>>
    THEN <<Write("stub", TableKey(table), stubText(table.SQL))>>
    ELSE <<>>

relatedWrites(table, whitelist) ==
    IF isWhitelistedTable(table, whitelist)
    THEN <<Write("full_label", <<>>, L_FULL), Write("full", TableKey(table), table.SQL)>>
    ELSE IF createTableLine(table.SQL) # <<>> /\ idLine(table.SQL) # <<>>
    THEN <<Write("stub", TableKey(table), stubText(table.SQL))>>
    ELSE <<>>

relatedSection(related, whitelist) ==
    <<Write("related_label", <<>>, L_RELATED)>>
    \o ConcatAll([i \in DOMAIN related |-> relatedWrites(related[i], whitelist)])

fkSection(fks) ==
    IF Len(fks) > 0
    THEN <<Write("fk_label", <<>>, L_FKS)>>
         \o [i \in DOMAIN fks |-> Write("fk", fks[i].SQL, fks[i].SQL \o NL)]
    ELSE <<>>

\* the bytes of a file: the texts of its writes, in order
FileContents(writes) == ConcatAll([i \in DOMAIN writes |-> writes[i].text])

(***************************************************************************)
(* Inputs.  A file is built from the statements of Library, each given as  *)
(* its lines, a blank line after it.                                       *)
(***************************************************************************)
\* CREATE TYPE public.st AS ENUM ( | 'a' | );
TypeSt ==
    <<<<"C","R","E","A","T","E"," ","T","Y","P","E"," ","p","u","b","l","i","c",".","s","t"," ","A","S"," ","E","N","U","M"," ","(">>,
       <<" "," "," "," ","'","a","'">>,
       <<")",";">>,
       <<>>>>

\* CREATE TYPE public.rl AS ENUM ( | 'a' | );
TypeRl ==
    <<<<"C","R","E","A","T","E"," ","T","Y","P","E"," ","p","u","b","l","i","c",".","r","l"," ","A","S"," ","E","N","U","M"," ","(">>,
       <<" "," "," "," ","'","a","'">>,
       <<")",";">>,
       <<>>>>

\* CREATE TYPE public.lv AS ENUM ( | 'x' | );
TypeLv ==
    <<<<"C","R","E","A","T","E"," ","T","Y","P","E"," ","p","u","b","l","i","c",".","l","v"," ","A","S"," ","E","N","U","M"," ","(">>,
       <<" "," "," "," ","'","x","'">>,
       <<")",";">>,
       <<>>>>

\* CREATE TABLE public.sub_forms ( | id bigint NOT NULL, | user_id bigint, | status public.st NOT NULL | );
TableSubForms ==
    <<<<"C","R","E","A","T","E"," ","T","A","B","L","E"," ","p","u","b","l","i","c",".","s","u","b","_","f","o","r","m","s"," ","(">>,
       <<" "," "," "," ","i","d"," ","b","i","g","i","n","t"," ","N","O","T"," ","N","U","L","L",",">>,
       <<" "," "," "," ","u","s","e","r","_","i","d"," ","b","i","g","i","n","t",",">>,
       <<" "," "," "," ","s","t","a","t","u","s"," ","p","u","b","l","i","c",".","s","t"," ","N","O","T"," ","N","U","L","L">>,
       <<")",";">>,
       <<>>>>

\* CREATE TABLE public.SUB_ITEMS ( | id bigint NOT NULL, | tag_id bigint, | kind public.st not null | );
TableSubItems ==
    <<<<"C","R","E","A","T","E"," ","T","A","B","L","E"," ","p","u","b","l","i","c",".","S","U","B","_","I","T","E","M","S"," ","(">>,
       <<" "," "," "," ","i","d"," ","b","i","g","i","n","t"," ","N","O","T"," ","N","U","L","L",",">>,
       <<" "," "," "," ","t","a","g","_","i","d"," ","b","i","g","i","n","t",",">>,
       <<" "," "," "," ","k","i","n","d"," ","p","u","b","l","i","c",".","s","t"," ","n","o","t"," ","n","u","l","l">>,
       <<")",";">>,
       <<>>>>

\* CREATE TABLE public.users ( | id bigint NOT NULL, | role public.rl DEFAULT 'a'::public.rl NOT NULL | );
TableUsers ==
    <<<<"C","R","E","A","T","E"," ","T","A","B","L","E"," ","p","u","b","l","i","c",".","u","s","e","r","s"," ","(">>,
       <<" "," "," "," ","i","d"," ","b","i","g","i","n","t"," ","N","O","T"," ","N","U","L","L",",">>,
       <<" "," "," "," ","r","o","l","e"," ","p","u","b","l","i","c",".","r","l"," ","D","E","F","A","U","L","T"," ","'","a","'",":",":","p","u","b","l","i","c",".","r","l"," ","N","O","T"," ","N","U","L","L">>,
       <<")",";">>,
       <<>>>>

\* CREATE TABLE app.user ( | id numeric(10,0) NOT NULL, | role public.rl not null | );
TableAppUser ==
    <<<<"C","R","E","A","T","E"," ","T","A","B","L","E"," ","a","p","p",".","u","s","e","r"," ","(">>,
       <<" "," "," "," ","i","d"," ","n","u","m","e","r","i","c","(","1","0",",","0",")"," ","N","O","T"," ","N","U","L","L",",">>,
       <<" "," "," "," ","r","o","l","e"," ","p","u","b","l","i","c",".","r","l"," ","n","o","t"," ","n","u","l","l">>,
       <<")",";">>,
       <<>>>>

\* CREATE TABLE public.tags ( | id bigint | );
TableTags ==
    <<<<"C","R","E","A","T","E"," ","T","A","B","L","E"," ","p","u","b","l","i","c",".","t","a","g","s"," ","(">>,
       <<" "," "," "," ","i","d"," ","b","i","g","i","n","t">>,
       <<")",";">>,
       <<>>>>

\* CREATE TABLE public.notes ( | sub_form_id bigint, | sub_item_id bigint, | lvl public.lv, | id bigint NOT NULL | );
TableNotes ==
    <<<<"C","R","E","A","T","E"," ","T","A","B","L","E"," ","p","u","b","l","i","c",".","n","o","t","e","s"," ","(">>,
       <<" "," "," "," ","s","u","b","_","f","o","r","m","_","i","d"," ","b","i","g","i","n","t",",">>,
       <<" "," "," "," ","s","u","b","_","i","t","e","m","_","i","d"," ","b","i","g","i","n","t",",">>,
       <<" "," "," "," ","l","v","l"," ","p","u","b","l","i","c",".","l","v",",">>,
       <<" "," "," "," ","i","d"," ","b","i","g","i","n","t"," ","N","O","T"," ","N","U","L","L">>,
       <<")",";">>,
       <<>>>>

\* CREATE TABLE public.logs ( | id bigint, | mode Public.LV DEFAULT 'x'::public.lv | );
TableLogs ==
    <<<<"C","R","E","A","T","E"," ","T","A","B","L","E"," ","p","u","b","l","i","c",".","l","o","g","s"," ","(">>,
       <<" "," "," "," ","i","d"," ","b","i","g","i","n","t",",">>,
       <<" "," "," "," ","m","o","d","e"," ","P","u","b","l","i","c",".","L","V"," ","D","E","F","A","U","L","T"," ","'","x","'",":",":","p","u","b","l","i","c",".","l","v">>,
       <<")",";">>,
       <<>>>>

\* CREATE TABLE public.subway ( | id bigint | );
TableSubway ==
    <<<<"C","R","E","A","T","E"," ","T","A","B","L","E"," ","p","u","b","l","i","c",".","s","u","b","w","a","y"," ","(">>,
       <<" "," "," "," ","i","d"," ","b","i","g","i","n","t">>,
       <<")",";">>,
       <<>>>>

\* CREATE TABLE sub ( | id bigint | );
TableSub ==
    <<<<"C","R","E","A","T","E"," ","T","A","B","L","E"," ","s","u","b"," ","(">>,
       <<" "," "," "," ","i","d"," ","b","i","g","i","n","t">>,
       <<")",";">>,
       <<>>>>

\* ALTER TABLE IF EXISTS ONLY public.SUB_FORMS DROP CONSTRAINT IF EXISTS fk_rails_1; | ADD CONSTRAINT fk_rails_1 FOREIGN KEY (user_id) REFERENCES public.users(id);
FkFormsUsers ==
    <<<<"A","L","T","E","R"," ","T","A","B","L","E"," ","I","F"," ","E","X","I","S","T","S"," ","O","N","L","Y"," ","p","u","b","l","i","c",".","S","U","B","_","F","O","R","M","S"," ","D","R","O","P"," ","C","O","N","S","T","R","A","I","N","T"," ","I","F"," ","E","X","I","S","T","S"," ","f","k","_","r","a","i","l","s","_","1",";">>,
       <<" "," "," "," ","A","D","D"," ","C","O","N","S","T","R","A","I","N","T"," ","f","k","_","r","a","i","l","s","_","1"," ","F","O","R","E","I","G","N"," ","K","E","Y"," ","(","u","s","e","r","_","i","d",")"," ","R","E","F","E","R","E","N","C","E","S"," ","p","u","b","l","i","c",".","u","s","e","r","s","(","i","d",")",";">>,
       <<>>>>

\* ALTER TABLE IF EXISTS ONLY public.sub_forms DROP CONSTRAINT IF EXISTS fk_rails_2; | ADD CONSTRAINT fk_rails_2 FOREIGN KEY (id) REFERENCES public.logs(id);
FkFormsLogs ==
    <<<<"A","L","T","E","R"," ","T","A","B","L","E"," ","I","F"," ","E","X","I","S","T","S"," ","O","N","L","Y"," ","p","u","b","l","i","c",".","s","u","b","_","f","o","r","m","s"," ","D","R","O","P"," ","C","O","N","S","T","R","A","I","N","T"," ","I","F"," ","E","X","I","S","T","S"," ","f","k","_","r","a","i","l","s","_","2",";">>,
       <<" "," "," "," ","A","D","D"," ","C","O","N","S","T","R","A","I","N","T"," ","f","k","_","r","a","i","l","s","_","2"," ","F","O","R","E","I","G","N"," ","K","E","Y"," ","(","i","d",")"," ","R","E","F","E","R","E","N","C","E","S"," ","p","u","b","l","i","c",".","l","o","g","s","(","i","d",")",";">>,
       <<>>>>

\* ALTER TABLE IF EXISTS ONLY public.notes DROP CONSTRAINT IF EXISTS fk_rails_3; | ADD CONSTRAINT fk_rails_3 FOREIGN KEY (id) REFERENCES public.logs(id);
FkNotesLogs ==
    <<<<"A","L","T","E","R"," ","T","A","B","L","E"," ","I","F"," ","E","X","I","S","T","S"," ","O","N","L","Y"," ","p","u","b","l","i","c",".","n","o","t","e","s"," ","D","R","O","P"," ","C","O","N","S","T","R","A","I","N","T"," ","I","F"," ","E","X","I","S","T","S"," ","f","k","_","r","a","i","l","s","_","3",";">>,
       <<" "," "," "," ","A","D","D"," ","C","O","N","S","T","R","A","I","N","T"," ","f","k","_","r","a","i","l","s","_","3"," ","F","O","R","E","I","G","N"," ","K","E","Y"," ","(","i","d",")"," ","R","E","F","E","R","E","N","C","E","S"," ","p","u","b","l","i","c",".","l","o","g","s","(","i","d",")",";">>,
       <<>>>>

Library ==
    <<TypeSt,
      TypeRl,
      TypeLv,
      TableSubForms,
      TableSubItems,
      TableUsers,
      TableAppUser,
      TableTags,
      TableNotes,
      TableLogs,
      TableSubway,
      TableSub,
      FkFormsUsers,
      FkFormsLogs,
      FkNotesLogs>>

W_sub == <<"s","u","b">>
W_Sub == <<"S","u","b">>
W_USERS == <<"U","S","E","R","S">>
W_user == <<"u","s","e","r">>
W_logs == <<"l","o","g","s">>

\* number of statements of an input file
MaxStatements == 3

\* the input files: at most MaxStatements statements of Library, in its order
FileOf(ids) == ConcatAll(SelectSeq([i \in DOMAIN Library |-> IF i \in ids THEN Library[i] ELSE <<>>],
                                   LAMBDA st : st # <<>>))

InputFiles == {FileOf(ids) : ids \in {S \in SUBSET DOMAIN Library : Cardinality(S) <= MaxStatements}}

\* os.Args[2]
Prefixes == {<<>>, W_sub, W_Sub}

\* os.Args[3:]
Whitelists == {<<>>, <<W_USERS, W_user>>, <<W_logs>>}

(***************************************************************************)
(* The run of main as a state machine.                                     *)
(***************************************************************************)
VARIABLES
    input,            \* the lines of the input file
    tablePrefix,      \* os.Args[2]
    whitelistTables,  \* os.Args[3:]
    pc,               \* the position of main
    tables, enums, foreignKeys,
    filteredTables, relatedTables, usedEnums, relevantFKs,
    outFile,          \* filtered_tables.sql: whether it exists, and the writes that made it
    secondRun,        \* TRUE in a run that follows a completed run on the same arguments
    firstOut,         \* the bytes of filtered_tables.sql when the first run completed
    summary           \* the counts of the summary line printed last, <<>> before it

vars == <<input, tablePrefix, whitelistTables, pc, tables, enums, foreignKeys,
          filteredTables, relatedTables, usedEnums, relevantFKs, outFile, secondRun, firstOut, summary>>

args == <<input, tablePrefix, whitelistTables>>
parsed == <<tables, enums, foreignKeys>>
selected == <<filteredTables, relatedTables, usedEnums, relevantFKs>>
runInfo == <<secondRun, firstOut, summary>>

NoFile == [exists |-> FALSE, writes |-> <<>>]

Init ==
    /\ input \in InputFiles
    /\ tablePrefix \in Prefixes
    /\ whitelistTables \in Whitelists
    /\ pc = "start"
    /\ tables = <<>> /\ enums = <<>> /\ foreignKeys = <<>>
    /\ filteredTables = <<>> /\ relatedTables = <<>> /\ usedEnums = <<>> /\ relevantFKs = <<>>
    /\ outFile = NoFile
    /\ secondRun = FALSE
    /\ firstOut = <<>>
    /\ summary = <<>>

\* the output file created before the input is opened
OpenFails_AfterCreate ==
    /\ pc = "start"
    /\ outFile' = [exists |-> TRUE, writes |-> <<>>]
    /\ pc' = "exit1"
    /\ UNCHANGED <<args, parsed, selected, runInfo>>

\* os.Open fails: message, exit code 1
OpenFails ==
    /\ pc = "start"
    /\ pc' = "exit1"
    /\ UNCHANGED <<args, parsed, selected, outFile, runInfo>>

\* a parse pass returns the scanner's read error: message, exit code 1
ParseFails ==
    /\ pc \in {"start", "tables", "enums"}
    /\ pc' = "exit1"
    /\ UNCHANGED <<args, parsed, selected, outFile, runInfo>>

ParseTables ==
    /\ pc = "start"
    /\ tables' = parseTables(input)
    /\ pc' = "tables"
    /\ UNCHANGED <<args, enums, foreignKeys, selected, outFile, runInfo>>

ParseEnums ==
    /\ pc = "tables"
    /\ LET r == parseEnums(input)
       IN  /\ enums' = r.enums
           /\ pc' = IF r.panic THEN "panic" ELSE "enums"
    /\ UNCHANGED <<args, tables, foreignKeys, selected, outFile, runInfo>>

ParseForeignKeys ==
    /\ pc = "enums"
    /\ foreignKeys' = parseForeignKeys(input)
    /\ pc' = "parsed"
    /\ UNCHANGED <<args, tables, enums, selected, outFile, runInfo>>

\* the output file created before the prefix is looked at
NoPrefix_CreatesFile ==
    /\ pc = "parsed"
    /\ tablePrefix = <<>>
    /\ outFile' = [exists |-> TRUE, writes |-> <<>>]
    /\ pc' = "done"
    /\ UNCHANGED <<args, parsed, selected, runInfo>>

\* tablePrefix == "": nothing more is done
NoPrefix ==
    /\ pc = "parsed"
    /\ tablePrefix = <<>>
    /\ pc' = "done"
    /\ UNCHANGED <<args, parsed, selected, outFile, runInfo>>

FilterTables ==
    /\ pc = "parsed"
    /\ tablePrefix # <<>>
    /\ filteredTables' = filterTablesByPrefix(tables, tablePrefix)
    /\ pc' = "filtered"
    /\ UNCHANGED <<args, parsed, relatedTables, usedEnums, relevantFKs, outFile, runInfo>>

FindRelated ==
    /\ pc = "filtered"
    /\ relatedTables' \in findRelatedTables(filteredTables, tables)
    /\ pc' = "related"
    /\ UNCHANGED <<args, parsed, filteredTables, usedEnums, relevantFKs, outFile, runInfo>>

FindEnums ==
    /\ pc = "related"
    /\ usedEnums' \in findUsedEnums(tablesToCheckForEnums(filteredTables, relatedTables, whitelistTables), enums)
    /\ pc' = "enumsFound"
    /\ UNCHANGED <<args, parsed, filteredTables, relatedTables, relevantFKs, outFile, runInfo>>

FindForeignKeys ==
    /\ pc = "enumsFound"
    /\ relevantFKs' \in findRelevantForeignKeys(filteredTables, relatedTables, whitelistTables, foreignKeys)
    /\ pc' = "selected"
    /\ UNCHANGED <<args, parsed, filteredTables, relatedTables, usedEnums, outFile, runInfo>>

\* os.Create: the file exists and is empty
CreateOutput ==
    /\ pc = "selected"
    /\ outFile' = [exists |-> TRUE, writes |-> <<>>]
    /\ pc' = "created"
    /\ UNCHANGED <<args, parsed, selected, runInfo>>

\* os.Create fails: message, exit code 1
CreateFails ==
    /\ pc = "selected"
    /\ pc' = "exit1"
    /\ UNCHANGED <<args, parsed, selected, outFile, runInfo>>

WriteEnums ==
    /\ pc = "created"
    /\ outFile' = [outFile EXCEPT !.writes = @ \o enumSection(usedEnums)]
    /\ pc' = "enumsWritten"
    /\ UNCHANGED <<args, parsed, selected, runInfo>>

\* the enum section written once more after the prefix-matched tables
WritePrefixTables_ThenEnums ==
    /\ pc = "enumsWritten"
    /\ outFile' = [outFile EXCEPT !.writes = @ \o prefixSection(filteredTables) \o enumSection(usedEnums)]
    /\ pc' = "prefixWritten"
    /\ UNCHANGED <<args, parsed, selected, runInfo>>

WritePrefixTables ==
    /\ pc = "enumsWritten"
    /\ outFile' = [outFile EXCEPT !.writes = @ \o prefixSection(filteredTables)]
    /\ pc' = "prefixWritten"
    /\ UNCHANGED <<args, parsed, selected, runInfo>>

WriteRelatedTables ==
    /\ pc = "prefixWritten"
    /\ outFile' = [outFile EXCEPT !.writes = @ \o relatedSection(relatedTables, whitelistTables)]
    /\ pc' = "relatedWritten"
    /\ UNCHANGED <<args, parsed, selected, runInfo>>

WriteForeignKeys ==
    /\ pc = "relatedWritten"
    /\ outFile' = [outFile EXCEPT !.writes = @ \o fkSection(relevantFKs)]
    /\ summary' = [tables |-> Len(filteredTables) + Len(relatedTables),
                   enums |-> Len(usedEnums),
                   foreignKeys |-> Len(relevantFKs)]
    /\ pc' = "done"
    /\ UNCHANGED <<args, parsed, selected, secondRun, firstOut>>

Next ==
    \/ OpenFails
    \/ ParseFails
    \/ ParseTables
    \/ ParseEnums
    \/ ParseForeignKeys
    \/ NoPrefix
    \/ FilterTables
    \/ FindRelated
    \/ FindEnums
    \/ FindForeignKeys
    \/ CreateOutput
    \/ CreateFails
    \/ WriteEnums
    \/ WritePrefixTables
    \/ WriteRelatedTables
    \/ WriteForeignKeys

Spec == Init /\ [][Next]_vars

\* the tool is run again on the same file with the same arguments, the output
\* file of the first run still in place
RunAgain ==
    /\ pc = "done"
    /\ ~secondRun
    /\ secondRun' = TRUE
    /\ firstOut' = FileContents(outFile.writes)
    /\ summary' = <<>>
    /\ pc' = "start"
    /\ tables' = <<>> /\ enums' = <<>> /\ foreignKeys' = <<>>
    /\ filteredTables' = <<>> /\ relatedTables' = <<>> /\ usedEnums' = <<>> /\ relevantFKs' = <<>>
    /\ UNCHANGED <<args, outFile>>

NextTwice == Next \/ RunAgain

SpecTwice == Init /\ [][NextTwice]_vars


(***************************************************************************)
(* A second library of statements, for the statement scanner and the name  *)
(* patterns: quoted and unqualified names, one-line and unterminated       *)
(* statements, an enum outside the public schema, a line on which          *)
(* parseEnums indexes out of range, a constraint written as pg_dump writes *)
(* it.  Each statement is followed by an empty line.                       *)
(***************************************************************************)

ScanLibrary ==
    <<
      \* CREATE TYPE public.e AS ENUM ( | 'a' | );
      <<<<"C","R","E","A","T","E"," ","T","Y","P","E"," ","p","u","b","l","i","c",".","e"," ","A","S"," ","E","N","U","M"," ","(">>,
         <<" "," "," "," ","'","a","'">>,
         <<")",";">>,
         <<>>>>,
      \* CREATE TYPE app.kd AS ENUM ( | 'a' | );
      <<<<"C","R","E","A","T","E"," ","T","Y","P","E"," ","a","p","p",".","k","d"," ","A","S"," ","E","N","U","M"," ","(">>,
         <<" "," "," "," ","'","a","'">>,
         <<")",";">>,
         <<>>>>,
      \* CREATE TYPE kd AS ENUM ( | 'b' | );
      <<<<"C","R","E","A","T","E"," ","T","Y","P","E"," ","k","d"," ","A","S"," ","E","N","U","M"," ","(">>,
         <<" "," "," "," ","'","b","'">>,
         <<")",";">>,
         <<>>>>,
      \* -- v1.0 CREATE TYPE x AS ENUM
      <<<<"-","-"," ","v","1",".","0"," ","C","R","E","A","T","E"," ","T","Y","P","E"," ","x"," ","A","S"," ","E","N","U","M">>,
         <<>>>>,
      \* CREATE TABLE app.t_one (id int);
      <<<<"C","R","E","A","T","E"," ","T","A","B","L","E"," ","a","p","p",".","t","_","o","n","e"," ","(","i","d"," ","i","n","t",")",";">>,
         <<>>>>,
      \* CREATE TABLE public.t_n ( | id int, | u_id int, -- f(); | e public.e, | k app.kd | ) | WITH (x=1);
      <<<<"C","R","E","A","T","E"," ","T","A","B","L","E"," ","p","u","b","l","i","c",".","t","_","n"," ","(">>,
         <<" "," "," "," ","i","d"," ","i","n","t",",">>,
         <<" "," "," "," ","u","_","i","d"," ","i","n","t",","," ","-","-"," ","f","(",")",";">>,
         <<" "," "," "," ","e"," ","p","u","b","l","i","c",".","e",",">>,
         <<" "," "," "," ","k"," ","a","p","p",".","k","d">>,
         <<")">>,
         <<"W","I","T","H"," ","(","x","=","1",")",";">>,
         <<>>>>,
      \* CREATE TABLE "app"."t_q" ( | id int | );
      <<<<"C","R","E","A","T","E"," ","T","A","B","L","E"," ","\"","a","p","p","\"",".","\"","t","_","q","\""," ","(">>,
         <<" "," "," "," ","i","d"," ","i","n","t">>,
         <<")",";">>,
         <<>>>>,
      \* CREATE TABLE "t_b" ( | id int, | t_n_id int | );
      <<<<"C","R","E","A","T","E"," ","T","A","B","L","E"," ","\"","t","_","b","\""," ","(">>,
         <<" "," "," "," ","i","d"," ","i","n","t",",">>,
         <<" "," "," "," ","t","_","n","_","i","d"," ","i","n","t">>,
         <<")",";">>,
         <<>>>>,
      \* CREATE TABLE u ( | id int | );
      <<<<"C","R","E","A","T","E"," ","T","A","B","L","E"," ","u"," ","(">>,
         <<" "," "," "," ","i","d"," ","i","n","t">>,
         <<")",";">>,
         <<>>>>,
      \* CREATE TABLE app.w ( | id int, | t_n_id int | );
      <<<<"C","R","E","A","T","E"," ","T","A","B","L","E"," ","a","p","p",".","w"," ","(">>,
         <<" "," "," "," ","i","d"," ","i","n","t",",">>,
         <<" "," "," "," ","t","_","n","_","i","d"," ","i","n","t">>,
         <<")",";">>,
         <<>>>>,
      \* CREATE TABLE public.t_o ( | id int
      <<<<"C","R","E","A","T","E"," ","T","A","B","L","E"," ","p","u","b","l","i","c",".","t","_","o"," ","(">>,
         <<" "," "," "," ","i","d"," ","i","n","t">>,
         <<>>>>,
      \* CREATE TYPE public.op AS ENUM ( | 'c'
      <<<<"C","R","E","A","T","E"," ","T","Y","P","E"," ","p","u","b","l","i","c",".","o","p"," ","A","S"," ","E","N","U","M"," ","(">>,
         <<" "," "," "," ","'","c","'">>,
         <<>>>>,
      \* ALTER TABLE IF EXISTS ONLY public.t_n DROP CONSTRAINT IF EXISTS fk_rails_1; |  | ALTER TABLE ONLY public.t_n | ADD CONSTRAINT fk_rails_1 FOREIGN KEY (u_id) REFERENCES public.u(id);
      <<<<"A","L","T","E","R"," ","T","A","B","L","E"," ","I","F"," ","E","X","I","S","T","S"," ","O","N","L","Y"," ","p","u","b","l","i","c",".","t","_","n"," ","D","R","O","P"," ","C","O","N","S","T","R","A","I","N","T"," ","I","F"," ","E","X","I","S","T","S"," ","f","k","_","r","a","i","l","s","_","1",";">>,
         <<>>,
         <<"A","L","T","E","R"," ","T","A","B","L","E"," ","O","N","L","Y"," ","p","u","b","l","i","c",".","t","_","n">>,
         <<" "," "," "," ","A","D","D"," ","C","O","N","S","T","R","A","I","N","T"," ","f","k","_","r","a","i","l","s","_","1"," ","F","O","R","E","I","G","N"," ","K","E","Y"," ","(","u","_","i","d",")"," ","R","E","F","E","R","E","N","C","E","S"," ","p","u","b","l","i","c",".","u","(","i","d",")",";">>,
         <<>>>>
    >>

MaxScanStatements == 4

\* the input files: at most MaxScanStatements statements of ScanLibrary, in its order
ScanFiles ==
    LET fileOf(ids) ==
            ConcatAll(SelectSeq([i \in DOMAIN ScanLibrary |-> IF i \in ids THEN ScanLibrary[i] ELSE <<>>],
                                LAMBDA st : st # <<>>))
    IN  {fileOf(ids) : ids \in {S \in SUBSET DOMAIN ScanLibrary : Cardinality(S) <= MaxScanStatements}}

\* os.Args[2]: "" and "t"
ScanPrefixes == {<<>>, <<"t">>}

\* os.Args[3:]: none, and "T_N" "u"
ScanWhitelists == {<<>>, << <<"T","_","N">>, <<"u">> >>}

InitScan ==
    /\ input \in ScanFiles
    /\ tablePrefix \in ScanPrefixes
    /\ whitelistTables \in ScanWhitelists
    /\ pc = "start"
    /\ tables = <<>> /\ enums = <<>> /\ foreignKeys = <<>>
    /\ filteredTables = <<>> /\ relatedTables = <<>> /\ usedEnums = <<>> /\ relevantFKs = <<>>
    /\ outFile = NoFile
    /\ secondRun = FALSE
    /\ firstOut = <<>>
    /\ summary = <<>>

SpecScan == InitScan /\ [][Next]_vars


(***************************************************************************)
(* A third library of statements, for what surrounds the selection: a      *)
(* one-line enum, statements written in lower case, constraints added      *)
(* before they are dropped, never dropped, or added twice, a table matched *)
(* by several columns in both directions, a related table without an id    *)
(* column, and a table linked only to a related table.  Each statement is  *)
(* followed by an empty line.                                              *)
(***************************************************************************)

EdgeLibrary ==
    <<
      \* CREATE TYPE public.s AS ENUM ('a');
      <<<<"C","R","E","A","T","E"," ","T","Y","P","E"," ","p","u","b","l","i","c",".","s"," ","A","S"," ","E","N","U","M"," ","(","'","a","'",")",";">>,
         <<>>>>,
      \* create type public.lc as enum ( | 'a' | );
      <<<<"c","r","e","a","t","e"," ","t","y","p","e"," ","p","u","b","l","i","c",".","l","c"," ","a","s"," ","e","n","u","m"," ","(">>,
         <<" "," "," "," ","'","a","'">>,
         <<")",";">>,
         <<>>>>,
      \* CREATE TABLE public.t_a ( | id int, | b_id int, | c_id int | );
      <<<<"C","R","E","A","T","E"," ","T","A","B","L","E"," ","p","u","b","l","i","c",".","t","_","a"," ","(">>,
         <<" "," "," "," ","i","d"," ","i","n","t",",">>,
         <<" "," "," "," ","b","_","i","d"," ","i","n","t",",">>,
         <<" "," "," "," ","c","_","i","d"," ","i","n","t">>,
         <<")",";">>,
         <<>>>>,
      \* CREATE TABLE public.t_y ( | id int, | b_id int | );
      <<<<"C","R","E","A","T","E"," ","T","A","B","L","E"," ","p","u","b","l","i","c",".","t","_","y"," ","(">>,
         <<" "," "," "," ","i","d"," ","i","n","t",",">>,
         <<" "," "," "," ","b","_","i","d"," ","i","n","t">>,
         <<")",";">>,
         <<>>>>,
      \* create table public.t_lc ( | id int | );
      <<<<"c","r","e","a","t","e"," ","t","a","b","l","e"," ","p","u","b","l","i","c",".","t","_","l","c"," ","(">>,
         <<" "," "," "," ","i","d"," ","i","n","t">>,
         <<")",";">>,
         <<>>>>,
      \* CREATE TABLE public.b ( | id int, | t_a_id int, | d_id int | );
      <<<<"C","R","E","A","T","E"," ","T","A","B","L","E"," ","p","u","b","l","i","c",".","b"," ","(">>,
         <<" "," "," "," ","i","d"," ","i","n","t",",">>,
         <<" "," "," "," ","t","_","a","_","i","d"," ","i","n","t",",">>,
         <<" "," "," "," ","d","_","i","d"," ","i","n","t">>,
         <<")",";">>,
         <<>>>>,
      \* CREATE TABLE public.c ( | name text | );
      <<<<"C","R","E","A","T","E"," ","T","A","B","L","E"," ","p","u","b","l","i","c",".","c"," ","(">>,
         <<" "," "," "," ","n","a","m","e"," ","t","e","x","t">>,
         <<")",";">>,
         <<>>>>,
      \* CREATE TABLE public.d ( | id int, | b_id int | );
      <<<<"C","R","E","A","T","E"," ","T","A","B","L","E"," ","p","u","b","l","i","c",".","d"," ","(">>,
         <<" "," "," "," ","i","d"," ","i","n","t",",">>,
         <<" "," "," "," ","b","_","i","d"," ","i","n","t">>,
         <<")",";">>,
         <<>>>>,
      \* ALTER TABLE ONLY public.t_a | ADD CONSTRAINT fk_rails_7 FOREIGN KEY (b_id) REFERENCES public.b(id); |  | ALTER TABLE IF EXISTS ONLY public.t_a DROP CONSTRAINT IF EXISTS fk_rails_7;
      <<<<"A","L","T","E","R"," ","T","A","B","L","E"," ","O","N","L","Y"," ","p","u","b","l","i","c",".","t","_","a">>,
         <<" "," "," "," ","A","D","D"," ","C","O","N","S","T","R","A","I","N","T"," ","f","k","_","r","a","i","l","s","_","7"," ","F","O","R","E","I","G","N"," ","K","E","Y"," ","(","b","_","i","d",")"," ","R","E","F","E","R","E","N","C","E","S"," ","p","u","b","l","i","c",".","b","(","i","d",")",";">>,
         <<>>,
         <<"A","L","T","E","R"," ","T","A","B","L","E"," ","I","F"," ","E","X","I","S","T","S"," ","O","N","L","Y"," ","p","u","b","l","i","c",".","t","_","a"," ","D","R","O","P"," ","C","O","N","S","T","R","A","I","N","T"," ","I","F"," ","E","X","I","S","T","S"," ","f","k","_","r","a","i","l","s","_","7",";">>,
         <<>>>>,
      \* ALTER TABLE ONLY public.t_a | ADD CONSTRAINT fk_rails_8 FOREIGN KEY (c_id) REFERENCES public.c(id);
      <<<<"A","L","T","E","R"," ","T","A","B","L","E"," ","O","N","L","Y"," ","p","u","b","l","i","c",".","t","_","a">>,
         <<" "," "," "," ","A","D","D"," ","C","O","N","S","T","R","A","I","N","T"," ","f","k","_","r","a","i","l","s","_","8"," ","F","O","R","E","I","G","N"," ","K","E","Y"," ","(","c","_","i","d",")"," ","R","E","F","E","R","E","N","C","E","S"," ","p","u","b","l","i","c",".","c","(","i","d",")",";">>,
         <<>>>>,
      \* ALTER TABLE IF EXISTS ONLY public.t_y DROP CONSTRAINT IF EXISTS fk_rails_9; |  | ALTER TABLE ONLY public.t_y | ADD CONSTRAINT fk_rails_9 FOREIGN KEY (b_id) REFERENCES public.b(id); |  | ALTER TABLE ONLY public.t_y | ADD CONSTRAINT fk_rails_9 FOREIGN KEY (b_id) REFERENCES public.b(id);
      <<<<"A","L","T","E","R"," ","T","A","B","L","E"," ","I","F"," ","E","X","I","S","T","S"," ","O","N","L","Y"," ","p","u","b","l","i","c",".","t","_","y"," ","D","R","O","P"," ","C","O","N","S","T","R","A","I","N","T"," ","I","F"," ","E","X","I","S","T","S"," ","f","k","_","r","a","i","l","s","_","9",";">>,
         <<>>,
         <<"A","L","T","E","R"," ","T","A","B","L","E"," ","O","N","L","Y"," ","p","u","b","l","i","c",".","t","_","y">>,
         <<" "," "," "," ","A","D","D"," ","C","O","N","S","T","R","A","I","N","T"," ","f","k","_","r","a","i","l","s","_","9"," ","F","O","R","E","I","G","N"," ","K","E","Y"," ","(","b","_","i","d",")"," ","R","E","F","E","R","E","N","C","E","S"," ","p","u","b","l","i","c",".","b","(","i","d",")",";">>,
         <<>>,
         <<"A","L","T","E","R"," ","T","A","B","L","E"," ","O","N","L","Y"," ","p","u","b","l","i","c",".","t","_","y">>,
         <<" "," "," "," ","A","D","D"," ","C","O","N","S","T","R","A","I","N","T"," ","f","k","_","r","a","i","l","s","_","9"," ","F","O","R","E","I","G","N"," ","K","E","Y"," ","(","b","_","i","d",")"," ","R","E","F","E","R","E","N","C","E","S"," ","p","u","b","l","i","c",".","b","(","i","d",")",";">>,
         <<>>>>,
      \* alter table if exists only public.t_a drop constraint if exists fk_rails_5; |  | alter table only public.t_a | add constraint fk_rails_5 foreign key (b_id) references public.b(id);
      <<<<"a","l","t","e","r"," ","t","a","b","l","e"," ","i","f"," ","e","x","i","s","t","s"," ","o","n","l","y"," ","p","u","b","l","i","c",".","t","_","a"," ","d","r","o","p"," ","c","o","n","s","t","r","a","i","n","t"," ","i","f"," ","e","x","i","s","t","s"," ","f","k","_","r","a","i","l","s","_","5",";">>,
         <<>>,
         <<"a","l","t","e","r"," ","t","a","b","l","e"," ","o","n","l","y"," ","p","u","b","l","i","c",".","t","_","a">>,
         <<" "," "," "," ","a","d","d"," ","c","o","n","s","t","r","a","i","n","t"," ","f","k","_","r","a","i","l","s","_","5"," ","f","o","r","e","i","g","n"," ","k","e","y"," ","(","b","_","i","d",")"," ","r","e","f","e","r","e","n","c","e","s"," ","p","u","b","l","i","c",".","b","(","i","d",")",";">>,
         <<>>>>
    >>

\* the input file holds at most MaxScanStatements statements of EdgeLibrary, in its
\* order; the prefix is "" or "t"; the whitelist is empty or "b"
InitEdge ==
    /\ LET fileOf(ids) ==
               ConcatAll(SelectSeq([i \in DOMAIN EdgeLibrary |-> IF i \in ids THEN EdgeLibrary[i] ELSE <<>>],
                                   LAMBDA st : st # <<>>))
       IN  input \in {fileOf(ids) : ids \in {S \in SUBSET DOMAIN EdgeLibrary : Cardinality(S) <= MaxScanStatements}}
    /\ tablePrefix \in ScanPrefixes
    /\ whitelistTables \in {<<>>, << <<"b">> >>}
    /\ pc = "start"
    /\ tables = <<>> /\ enums = <<>> /\ foreignKeys = <<>>
    /\ filteredTables = <<>> /\ relatedTables = <<>> /\ usedEnums = <<>> /\ relevantFKs = <<>>
    /\ outFile = NoFile
    /\ secondRun = FALSE
    /\ firstOut = <<>>
    /\ summary = <<>>

SpecEdge == InitEdge /\ [][Next]_vars

\* a run on a file of EdgeLibrary, and a second run with the first run's output in place
SpecEdgeTwice == InitEdge /\ [][NextTwice]_vars

(***************************************************************************)
(* The pg_query variant of the tool (the second main): the tables it       *)
(* selects.  pg_query.Parse is PostgreSQL's parser: of a CREATE TABLE      *)
(* statement it gives the relation, the schema empty when none is written, *)
(* a name written without quotes folded to lower case.                     *)
(***************************************************************************)
\* the Relation of every CreateStmt of result.Stmts, in input order
pgQueryCreateStmts(lines) ==
    LET heads == SelectSeq(lines, LAMBDA l : MatchFoldAt(l, S_CREATE_TABLE \o <<" ">>, 1))
        written(l) == LET a == Len(S_CREATE_TABLE) + 2
                          b == SkipToParen(l, a)
                      IN  TrimSpace(SubSeq(l, a, b - 1))
        ident(w) == IF HasPrefix(w, <<"\"">>) THEN SubSeq(w, 2, Len(w) - 1) ELSE ToLower(w)
        relation(l) == LET w == written(l)
                           k == Index(w, S_DOT)
                       IN  IF k = 0
                           THEN [Schemaname |-> <<>>, Relname |-> ident(w)]
                           ELSE [Schemaname |-> ident(SubSeq(w, 1, k - 1)),
                                 Relname |-> ident(SubSeq(w, k + 1, Len(w)))]
    IN  [i \in DOMAIN heads |-> relation(heads[i])]

getTableName(relation) ==
    (IF relation.Schemaname = <<>> THEN S_public ELSE relation.Schemaname) \o S_DOT \o relation.Relname

contains(slice, item) == \E i \in DOMAIN slice : slice[i] = item

\* filteredTableNames after the loop over result.Stmts: the names of the tables the
\* variant writes, all of them in full
pgQueryTables(lines, prefix, whitelist) ==
    LET names == [i \in DOMAIN pgQueryCreateStmts(lines) |-> getTableName(pgQueryCreateStmts(lines)[i])]
        trimPublic(n) == IF HasPrefix(n, S_public_dot) THEN SubSeq(n, Len(S_public_dot) + 1, Len(n)) ELSE n
    IN  SelectSeq(names, LAMBDA n : \/ HasPrefix(n, S_public_dot \o prefix \o <<"_">>)
                                    \/ contains(whitelist, trimPublic(n)))
(***************************************************************************)
(* The data model the properties speak of: the columns of a table, read    *)
(* from the lines of its definition after the header.  A column line has   *)
(* at least two white-space separated fields, its name and its declared    *)
(* type.                                                                   *)
(***************************************************************************)
RECURSIVE SkipToSpace(_, _)
SkipToSpace(s, i) == IF i <= Len(s) /\ ~IsSpace(s[i]) THEN SkipToSpace(s, i + 1) ELSE i

RECURSIVE Fields(_)
Fields(s) ==
    LET a == SkipSpace(s, 1)
        b == SkipToSpace(s, a)
    IN  IF a > Len(s) THEN <<>> ELSE <<SubSeq(s, a, b - 1)>> \o Fields(SubSeq(s, b, Len(s)))

StripComma(s) == TrimSuffix(s, <<",">>)

HeaderLine(t) == ScanLines(t.SQL)[1]

ColumnsOf(t) ==
    LET lines == ScanLines(t.SQL)
        isColumn(l) == Len(Fields(l)) >= 2
        cols == SelectSeq(SubSeq(lines, 2, Len(lines)), isColumn)
    IN  {[name |-> Fields(cols[i])[1],
          declaredType |-> StripComma(Fields(cols[i])[2]),
          definition |-> StripComma(TrimSpace(cols[i]))] : i \in DOMAIN cols}

\* some column of table t is declared with the enum type e
ColumnTyped(t, e) ==
    \E c \in ColumnsOf(t) : ToLower(c.declaredType) = ToLower(EnumFullName(e))

Elems(s) == {s[i] : i \in DOMAIN s}

FilteredPcs ==
    {"filtered", "related", "enumsFound", "selected", "created", "enumsWritten",
     "prefixWritten", "relatedWritten", "done"}
RelatedPcs == FilteredPcs \ {"filtered"}
EnumsFoundPcs == RelatedPcs \ {"related"}
SelectedPcs == EnumsFoundPcs \ {"enumsFound"}
RelatedWrittenPcs == {"relatedWritten", "done"}

TableWrites == {w \in Elems(outFile.writes) : w.kind \in {"table", "full", "stub"}}

WhitelistedRelated == {t \in Elems(relatedTables) : isWhitelistedTable(t, whitelistTables)}

(***************************************************************************)
(* C1: two runs of the tool on the same input file, prefix and whitelist   *)
(* leave byte-identical contents in filtered_tables.sql.                   *)
(***************************************************************************)
C1_SameOutputTwice ==
    (pc = "done" /\ secondRun) => FileContents(outFile.writes) = firstOut

(***************************************************************************)
(* C2: after a successful run with a non-empty prefix, both the owning and *)
(* the referenced table of every foreign key written to the output have a  *)
(* definition (full or stub) written to the output.                        *)
(***************************************************************************)
DefinitionWritten(schema, name) ==
    \E w \in TableWrites : ToLower(w.key) = ToLower(schema \o S_DOT \o name)

\* the input itself is closed: both tables of every parsed constraint are tables
\* of the input
InputClosed ==
    \A fk \in Elems(foreignKeys) :
        /\ \E t \in Elems(tables) : ToLower(TableKey(t)) = ToLower(fk.FromSchema \o S_DOT \o fk.FromTable)
        /\ \E t \in Elems(tables) : ToLower(TableKey(t)) = ToLower(fk.ToSchema \o S_DOT \o fk.ToTable)

C2_ForeignKeysClosed ==
    (pc = "done" /\ tablePrefix # <<>> /\ InputClosed) =>
        \A w \in Elems(outFile.writes) : w.kind = "fk" =>
            \A fk \in Elems(foreignKeys) : fk.SQL = w.key =>
                /\ DefinitionWritten(fk.FromSchema, fk.FromTable)
                /\ DefinitionWritten(fk.ToSchema, fk.ToTable)

(***************************************************************************)
(* C3: filterTablesByPrefix returns exactly the tables whose lowercased    *)
(* name starts with the lowercased prefix followed by an underscore.       *)
(***************************************************************************)
PrefixDelimited(name, prefix) ==
    /\ Len(name) >= Len(prefix) + 1
    /\ \A k \in DOMAIN prefix : ToLowerChar(name[k]) = ToLowerChar(prefix[k])
    /\ name[Len(prefix) + 1] = "_"

C3_PrefixSelection ==
    (tablePrefix # <<>> /\ pc \in FilteredPcs) =>
        /\ \A t \in Elems(tables) :
               t \in Elems(filteredTables) <=> PrefixDelimited(t.Name, tablePrefix)
        /\ Elems(filteredTables) \subseteq Elems(tables)
        /\ Len(filteredTables) = Cardinality({i \in DOMAIN tables : PrefixDelimited(tables[i].Name, tablePrefix)})

\* a table is selected whose name differs in case from the prefix, a table whose
\* name only starts with the prefix is not, and a table named as the prefix is not
C3_Witness ==
    /\ pc = "filtered"
    /\ \E t \in Elems(filteredTables) : ~HasPrefix(t.Name, tablePrefix)
    /\ \E t \in Elems(tables) :
           /\ t \notin Elems(filteredTables)
           /\ Len(t.Name) > Len(tablePrefix)
           /\ HasPrefix(ToLower(t.Name), ToLower(tablePrefix))
    /\ \E t \in Elems(tables) : t \notin Elems(filteredTables) /\ ToLower(t.Name) = ToLower(tablePrefix)

(***************************************************************************)
(* C4: findRelevantForeignKeys includes a parsed constraint if and only if *)
(* its from-table or its to-table is a prefix-matched table (schema and    *)
(* name, case-insensitively) or has a bare name equal, case-insensitively, *)
(* to a whitelist entry; an endpoint in the related set alone does not     *)
(* include it.                                                             *)
(***************************************************************************)
EndpointChosen(schema, name) ==
    \/ \E t \in Elems(filteredTables) :
           ToLower(t.Schema) = ToLower(schema) /\ ToLower(t.Name) = ToLower(name)
    \/ \E w \in Elems(whitelistTables) : ToLower(w) = ToLower(name)

C4_ForeignKeyRelevance ==
    (tablePrefix # <<>> /\ pc \in SelectedPcs) =>
        /\ \A fk \in Elems(foreignKeys) :
               fk \in Elems(relevantFKs) <=>
                   \/ EndpointChosen(fk.FromSchema, fk.FromTable)
                   \/ EndpointChosen(fk.ToSchema, fk.ToTable)
        /\ Elems(relevantFKs) \subseteq Elems(foreignKeys)

\* a constraint owned by a related table is parsed and is not selected
C4_Witness ==
    /\ pc = "selected"
    /\ \E fk \in Elems(foreignKeys) :
           /\ fk \notin Elems(relevantFKs)
           /\ \E t \in Elems(relatedTables) : t.Schema = fk.FromSchema /\ t.Name = fk.FromTable

(***************************************************************************)
(* C5: outbound inference.  For every prefix-matched table F and every     *)
(* column of F whose lowercased name ends in _id, every table of the       *)
(* corpus, in any schema, whose lowercased name is the column name without *)
(* _id, or that plus "s", and that is not prefix-matched, is in the        *)
(* related set.                                                            *)
(***************************************************************************)
OutboundTargets(F) ==
    {t \in Elems(tables) :
        /\ t \notin Elems(filteredTables)
        /\ \E c \in ColumnsOf(F) :
               /\ HasSuffix(ToLower(c.name), S_id_suffix)
               /\ \/ ToLower(t.Name) \o S_id_suffix = ToLower(c.name)
                  \/ ToLower(t.Name) = SubSeq(ToLower(c.name), 1, Len(c.name) - Len(S_id_suffix)) \o S_s}

C5_Outbound ==
    (tablePrefix # <<>> /\ pc \in RelatedPcs) =>
        \A F \in Elems(filteredTables) : OutboundTargets(F) \subseteq Elems(relatedTables)

\* one column surfaces a table named by the plural and a table of another schema
\* named by the singular
C5_Witness ==
    /\ pc = "related"
    /\ \E F \in Elems(filteredTables) :
           \E t1, t2 \in OutboundTargets(F) :
               /\ t1.Schema # t2.Schema
               /\ t1.Name \o S_s = t2.Name
               /\ {t1, t2} \subseteq Elems(relatedTables)

(***************************************************************************)
(* C6: inbound inference.  Every table T that is not prefix-matched and    *)
(* has a column named, in lower case, as a prefix-matched table F's        *)
(* lowercased name with one trailing "s" stripped, followed by _id, is in  *)
(* the related set, whatever the letter case of F's name.                  *)
(***************************************************************************)
InboundColumn(F) == TrimSuffix(ToLower(F.Name), S_s) \o S_id_suffix

C6_Inbound ==
    (tablePrefix # <<>> /\ pc \in RelatedPcs) =>
        \A F \in Elems(filteredTables) : \A T \in Elems(tables) :
            (/\ T \notin Elems(filteredTables)
             /\ \E c \in ColumnsOf(T) : ToLower(c.name) = InboundColumn(F))
                => T \in Elems(relatedTables)

(***************************************************************************)
(* C7: for every related table that is not whitelisted and has an id       *)
(* column, the text written is exactly a stub: the header line, one line   *)
(* holding only the id column definition, one closing ");" line.           *)
(***************************************************************************)
HasIdColumn(t) == \E c \in ColumnsOf(t) : c.name = S_id

ExactStub(text, t) ==
    LET ls == ScanLines(text)
    IN  /\ Len(ls) >= 3
        /\ ls[1] = HeaderLine(t)
        /\ \E c \in ColumnsOf(t) : c.name = S_id /\ TrimSpace(ls[2]) = c.definition
        /\ ls[3] = S_CLOSE
        /\ \A i \in DOMAIN ls : i > 3 => ls[i] = <<>>

C7_ExactStub ==
    (tablePrefix # <<>> /\ pc \in RelatedWrittenPcs) =>
        \A t \in Elems(relatedTables) :
            (~isWhitelistedTable(t, whitelistTables) /\ HasIdColumn(t)) =>
                \E w \in Elems(outFile.writes) :
                    w.kind = "stub" /\ w.key = TableKey(t) /\ ExactStub(w.text, t)

(***************************************************************************)
(* C8: for every related table whose bare name equals a whitelist entry    *)
(* case-insensitively, the output holds the table's full verbatim SQL and  *)
(* no stub for it, and every enum that a column of the table is declared   *)
(* with is in the enum section.                                            *)
(***************************************************************************)
EnumWritten(e) ==
    \E w \in Elems(outFile.writes) : w.kind = "enum" /\ w.key = EnumFullName(e) /\ w.text = e.SQL

C8_WhitelistedInFull ==
    pc = "done" =>
        \A t \in WhitelistedRelated :
            /\ \E w \in Elems(outFile.writes) : w.kind = "full" /\ w.text = t.SQL
            /\ ~\E w \in Elems(outFile.writes) : w.kind = "stub" /\ w.key = TableKey(t)
            /\ \A e \in Elems(enums) : ColumnTyped(t, e) => EnumWritten(e)

(***************************************************************************)
(* C9: the emitted enum set is the union of the enums referenced by the    *)
(* prefix-matched tables and by the whitelisted related tables, and of no  *)
(* other table.                                                            *)
(***************************************************************************)
C9_EmittedEnums ==
    pc = "done" =>
        {e \in Elems(enums) : EnumWritten(e)}
            = {e \in Elems(enums) :
                  \E t \in Elems(filteredTables) \cup WhitelistedRelated : ColumnTyped(t, e)}

(***************************************************************************)
(* C10: findUsedEnums reports a public enum as used by a table whenever a  *)
(* column of the table is declared with it, whatever follows the type on   *)
(* the line and in whatever letter case.                                   *)
(***************************************************************************)
C10_EnumUseDetected ==
    (tablePrefix # <<>> /\ pc \in EnumsFoundPcs) =>
        \A t \in Elems(tablesToCheckForEnums(filteredTables, relatedTables, whitelistTables)) :
            \A e \in Elems(enums) :
                (ToLower(e.Schema) = S_public /\ ColumnTyped(t, e)) => e \in Elems(usedEnums)


(***************************************************************************)
(* C11: enum usage is decided by schema-qualified comparison for every     *)
(* schema.  An extracted enum S.N is in the result of findUsedEnums if and *)
(* only if a column of some table passed to it is declared with the type   *)
(* S.N, compared case-insensitively, whatever the schema S.                *)
(***************************************************************************)
C11_EnumUseAnySchema ==
    (tablePrefix # <<>> /\ pc \in EnumsFoundPcs) =>
        \A e \in Elems(enums) :
            e \in Elems(usedEnums) <=>
                \E t \in Elems(tablesToCheckForEnums(filteredTables, relatedTables, whitelistTables)) :
                    ColumnTyped(t, e)

(***************************************************************************)
(* C12: the sections of the output file are always in this order: enum     *)
(* definitions, prefix-matched tables, related tables (in full or as       *)
(* stubs), foreign-key constraints; nothing of an earlier section is       *)
(* written after something of a later one, at any moment of the run, and   *)
(* every foreign-key constraint is written as one line.                    *)
(***************************************************************************)
SectionOf(kind) ==
    CASE kind \in {"enum_label", "enum", "blank"} -> 1
      [] kind \in {"prefix_label", "table"} -> 2
      [] kind \in {"related_label", "full_label", "full", "stub"} -> 3
      [] kind \in {"fk_label", "fk"} -> 4

C12_SectionOrder ==
    /\ \A i, j \in DOMAIN outFile.writes :
           i < j => SectionOf(outFile.writes[i].kind) <= SectionOf(outFile.writes[j].kind)
    /\ \A w \in Elems(outFile.writes) :
           w.kind = "fk" => Count(w.text, "\n") = 1 /\ w.text[Len(w.text)] = "\n"

\* a finished file that holds an enum, a prefix-matched table, a related table
\* and a constraint
C12_Witness ==
    /\ pc = "done"
    /\ \A k \in {"enum", "table", "fk"} : \E w \in Elems(outFile.writes) : w.kind = k
    /\ \E w \in Elems(outFile.writes) : w.kind \in {"full", "stub"}

(***************************************************************************)
(* C13: for a CREATE TABLE statement whose name is written schema.name,    *)
(* "schema"."name" or as a bare name, quoted or not, parseTables yields a  *)
(* Table whose Schema and Name are exactly the written ones, Schema being  *)
(* public when none is written.  Stated of the first CREATE TABLE line of  *)
(* the file, where the scanner is outside every statement, when the        *)
(* statement spans several lines and reaches its terminating line.         *)
(***************************************************************************)
\* the name as written on a CREATE TABLE line: the text between the keyword and
\* the following white space or parenthesis
WrittenToken(line) ==
    LET b == SkipSpace(line, Len(S_CREATE_TABLE) + 1)
        stops == {k \in b..Len(line) : line[k] \in {" ", "("}}
    IN  IF stops = {} THEN SubSeq(line, b, Len(line)) ELSE SubSeq(line, b, Min(stops) - 1)

Unquoted(s) == SelectSeq(s, LAMBDA c : c # "\"")

\* a word, or a word between double quotes
IsIdentifier(s) ==
    LET bare(w) == w # <<>> /\ \A k \in DOMAIN w : IsWordChar(w[k])
    IN  \/ bare(s)
        \/ Len(s) >= 3 /\ s[1] = "\"" /\ s[Len(s)] = "\"" /\ bare(SubSeq(s, 2, Len(s) - 1))

WrittenQualified(line) == CountSep(WrittenToken(line), S_DOT, 1) = 1

WrittenSchema(line) ==
    IF WrittenQualified(line) THEN Unquoted(SplitFirst(WrittenToken(line), S_DOT)) ELSE S_public

WrittenName(line) ==
    LET tok == WrittenToken(line)
    IN  IF WrittenQualified(line) THEN Unquoted(SubSeq(tok, Index(tok, S_DOT) + 1, Len(tok)))
        ELSE Unquoted(tok)

WellFormedName(line) ==
    LET tok == WrittenToken(line)
    IN  IF WrittenQualified(line)
        THEN /\ IsIdentifier(SplitFirst(tok, S_DOT))
             /\ IsIdentifier(SubSeq(tok, Index(tok, S_DOT) + 1, Len(tok)))
        ELSE IsIdentifier(tok)

IsTableHeader(line) == HasPrefix(line, S_CREATE_TABLE)

IsFirstTableHeader(i) ==
    /\ IsTableHeader(input[i])
    /\ \A k \in 1..(i - 1) : ~IsTableHeader(input[k])

\* "(" minus ")" summed over the lines i..j of the file
RECURSIVE DepthOver(_, _)
DepthOver(i, j) ==
    IF j < i THEN 0
    ELSE DepthOver(i, j - 1) + Count(input[j], "(") - Count(input[j], ")")

ClosesAt(i, j) == Contains(input[j], S_CLOSE) /\ DepthOver(i, j) <= 0

C13_WrittenNames ==
    pc = "tables" =>
        \A i \in DOMAIN input :
            (/\ IsFirstTableHeader(i)
             /\ WellFormedName(input[i])
             /\ ~Contains(input[i], S_CLOSE)
             /\ \E j \in (i + 1)..Len(input) : ClosesAt(i, j))
                => \E t \in Elems(tables) :
                       /\ HeaderLine(t) = input[i]
                       /\ t.Schema = WrittenSchema(input[i])
                       /\ t.Name = WrittenName(input[i])

(***************************************************************************)
(* C14: in a run with no table prefix (the argument absent or empty) no    *)
(* step creates or changes filtered_tables.sql, and no step computes a     *)
(* filtered, related, enum or foreign-key set: the run only parses.        *)
(***************************************************************************)
C14_NoPrefixNoOutput ==
    [][tablePrefix = <<>> => UNCHANGED <<outFile, selected>>]_vars

\* a run without prefix that has parsed tables and ended, the file not created
C14_Witness ==
    /\ pc = "done"
    /\ tablePrefix = <<>>
    /\ tables # <<>>
    /\ ~outFile.exists

(***************************************************************************)
(* C15: a run fails only on an I/O failure: it ends with exit code 1 when  *)
(* the input file cannot be opened or the output file cannot be created,   *)
(* and no content of an input that was opened makes a run fail.            *)
(***************************************************************************)
RunFailed == pc \in {"exit1", "panic"}

C15_FailsOnlyOnIo == RunFailed => pc = "exit1"

(***************************************************************************)
(* C16: the related set returned by findRelatedTables never holds a        *)
(* prefix-matched table; so a table that matches the prefix and is named   *)
(* in the whitelist is written exactly once (its statement being once in   *)
(* the input), in the prefix-matched section, never as a whitelisted full  *)
(* definition and never as a stub.                                         *)
(***************************************************************************)
WritesOf(t) ==
    {i \in DOMAIN outFile.writes :
        /\ outFile.writes[i].kind \in {"table", "full", "stub"}
        /\ outFile.writes[i].key = TableKey(t)}

C16_RelatedExcludesFiltered ==
    /\ (tablePrefix # <<>> /\ pc \in RelatedPcs) =>
           Elems(relatedTables) \cap Elems(filteredTables) = {}
    /\ (tablePrefix # <<>> /\ pc = "done") =>
           \A t \in Elems(filteredTables) :
               isWhitelistedTable(t, whitelistTables) =>
                   /\ Cardinality(WritesOf(t)) = 1
                   /\ \A i \in WritesOf(t) : outFile.writes[i].kind = "table"

\* a finished run in which a prefix-matched table named in the whitelist is what
\* a column of another prefix-matched table refers to
C16_Witness ==
    /\ pc = "done"
    /\ \E t, F \in Elems(filteredTables) :
           /\ isWhitelistedTable(t, whitelistTables)
           /\ \E c \in ColumnsOf(F) : ToLower(c.name) = ToLower(t.Name) \o S_id_suffix

(***************************************************************************)
(* C17: every extracted Table, EnumType and ForeignKey holds as its SQL    *)
(* exactly the text of the consecutive input lines of its own statement,   *)
(* unchanged and in order, and every full definition and every constraint  *)
(* line written to the output is that stored text.  For tables and enums   *)
(* the statement runs from its opening line to its terminating line (the   *)
(* case of an opening line that itself terminates is left to C18); for a   *)
(* constraint it runs from the line after the previous statement's ";" or  *)
(* an empty line to the line that ends with ";".                           *)
(***************************************************************************)
LinesText(a, b) == ConcatAll([k \in 1..(b - a + 1) |-> input[a + k - 1] \o NL])

EndsStatement(line) == line # <<>> /\ line[Len(line)] = ";"

\* the lines a..b are one statement: none before b ends it, none is empty, and the
\* line before a is no part of it
IsStatement(a, b) ==
    /\ a <= b
    /\ EndsStatement(input[b])
    /\ \A k \in a..(b - 1) : input[k] # <<>> /\ ~EndsStatement(input[k])
    /\ a = 1 \/ input[a - 1] = <<>> \/ EndsStatement(input[a - 1])

TableVerbatim(t) ==
    \E a \in DOMAIN input : \E b \in (a + 1)..Len(input) :
        /\ input[a] = HeaderLine(t)
        /\ ClosesAt(a, b)
        /\ \A j \in (a + 1)..(b - 1) : ~ClosesAt(a, j)
        /\ t.SQL = LinesText(a, b)

EnumVerbatim(e) ==
    \E a \in DOMAIN input : \E b \in (a + 1)..Len(input) :
        /\ input[a] = ScanLines(e.SQL)[1]
        /\ Contains(input[b], S_CLOSE)
        /\ \A j \in (a + 1)..(b - 1) : ~Contains(input[j], S_CLOSE)
        /\ e.SQL = LinesText(a, b)

ForeignKeyVerbatim(fk) ==
    \E a \in DOMAIN input : \E b \in a..Len(input) :
        IsStatement(a, b) /\ fk.SQL \o NL = LinesText(a, b)

C17_VerbatimSQL ==
    /\ pc = "parsed" =>
           /\ \A t \in Elems(tables) : ~Contains(HeaderLine(t), S_CLOSE) => TableVerbatim(t)
           /\ \A e \in Elems(enums) : ~Contains(ScanLines(e.SQL)[1], S_CLOSE) => EnumVerbatim(e)
           /\ \A fk \in Elems(foreignKeys) : ForeignKeyVerbatim(fk)
    /\ \A w \in Elems(outFile.writes) :
           /\ w.kind \in {"table", "full"} => \E t \in Elems(tables) : w.text = t.SQL
           /\ w.kind = "enum" => \E e \in Elems(enums) : w.text = e.SQL
           /\ w.kind = "fk" => \E fk \in Elems(foreignKeys) : w.text = fk.SQL \o NL

(***************************************************************************)
(* C18: in parseTables a CREATE TABLE statement ends at the first line     *)
(* consumed for it, the opening line being the first, at which the running *)
(* sum of "(" minus ")" is <= 0 and the line contains ");": the table is   *)
(* emitted with the lines up to that one, and the scanner reads the next   *)
(* line as outside every statement.  Stated of the first CREATE TABLE line *)
(* of the file, where the scanner is outside every statement.              *)
(***************************************************************************)
FirstClose(i, j) == ClosesAt(i, j) /\ \A k \in i..(j - 1) : ~ClosesAt(i, k)

C18_StatementEnd ==
    pc = "tables" =>
        \A i \in DOMAIN input :
            (IsFirstTableHeader(i) /\ tablePattern(input[i]) # <<>>) =>
                \A j \in i..Len(input) :
                    FirstClose(i, j) =>
                        /\ tables # <<>>
                        /\ tables[1].SQL = LinesText(i, j)
                        /\ Tail(tables) = parseTables(SubSeq(input, j + 1, Len(input)))

(***************************************************************************)
(* C19: a CREATE TABLE or CREATE TYPE statement that never reaches a       *)
(* terminating line before the end of the input produces no Table and no   *)
(* EnumType, and no error: the pass returns what the lines before the      *)
(* statement yield, and the run goes on.  Stated of an opening line read   *)
(* outside every statement, whose own line does not terminate it.          *)
(***************************************************************************)
TableOpens(i) == createTablePattern(input[i]) /\ tablePattern(input[i]) # <<>>

\* every CREATE TABLE statement opened before line i has reached its terminating
\* line before line i
OutsideTablesAt(i) ==
    \A a \in 1..(i - 1) : TableOpens(a) => \E j \in (a + 1)..(i - 1) : ClosesAt(a, j)

UnterminatedTable(i) ==
    /\ TableOpens(i)
    /\ OutsideTablesAt(i)
    /\ \A j \in i..Len(input) : ~ClosesAt(i, j)

EnumOpens(i) == enumLineStarts(input[i])

OutsideEnumsAt(i) ==
    \A a \in 1..(i - 1) : EnumOpens(a) => \E j \in (a + 1)..(i - 1) : Contains(input[j], S_CLOSE)

UnterminatedEnum(i) ==
    /\ EnumOpens(i)
    /\ OutsideEnumsAt(i)
    /\ \A j \in i..Len(input) : ~Contains(input[j], S_CLOSE)

C19_UnterminatedDropped ==
    /\ pc = "tables" =>
           \A i \in DOMAIN input :
               UnterminatedTable(i) => tables = parseTables(SubSeq(input, 1, i - 1))
    /\ pc = "enums" =>
           \A i \in DOMAIN input :
               UnterminatedEnum(i) => enums = parseEnums(SubSeq(input, 1, i - 1)).enums

\* a run that went on to its end on an input with an unterminated CREATE TABLE
\* and an unterminated CREATE TYPE, with a table extracted before them
C19_Witness ==
    /\ pc = "done"
    /\ tables # <<>>
    /\ \E i \in DOMAIN input : UnterminatedTable(i)
    /\ \E i \in DOMAIN input : UnterminatedEnum(i)

(***************************************************************************)
(* C20: parseEnums extracts an enum only from a CREATE TYPE ... AS ENUM    *)
(* line whose text before AS ENUM holds exactly one dotted pair            *)
(* schema.name, and records that schema and that name; a CREATE TYPE line  *)
(* with an unqualified name, read outside every statement, yields no       *)
(* EnumType and starts no statement: the result is what the lines before   *)
(* it and the lines after it yield.                                        *)
(***************************************************************************)
IsWord(s) == s # <<>> /\ \A k \in DOMAIN s : IsWordChar(s[k])

QualifiedEnumHeader(line, schema, name) ==
    /\ Contains(line, S_CREATE_TYPE)
    /\ Contains(line, S_AS_ENUM)
    /\ IsWord(schema) /\ IsWord(name)
    /\ SplitFirst(line, S_AS_ENUM) = S_CREATE_TYPE \o <<" ">> \o schema \o S_DOT \o name \o <<" ">>

BareEnumHeader(line) ==
    /\ HasPrefix(line, S_CREATE_TYPE)
    /\ Contains(line, S_AS_ENUM)
    /\ ~Contains(SplitFirst(line, S_AS_ENUM), S_DOT)

C20_QualifiedEnumsOnly ==
    pc = "enums" =>
        /\ \A e \in Elems(enums) : QualifiedEnumHeader(ScanLines(e.SQL)[1], e.Schema, e.Name)
        /\ \A i \in DOMAIN input :
               (BareEnumHeader(input[i]) /\ OutsideEnumsAt(i)) =>
                   enums = parseEnums(SubSeq(input, 1, i - 1)).enums
                               \o parseEnums(SubSeq(input, i + 1, Len(input))).enums

\* enums are extracted from an input that holds an unqualified CREATE TYPE line
\* read outside every statement
C20_Witness ==
    /\ pc = "enums"
    /\ enums # <<>>
    /\ \E i \in DOMAIN input : BareEnumHeader(input[i]) /\ OutsideEnumsAt(i)

(***************************************************************************)
(* C21: in parseEnums a recognized CREATE TYPE ... AS ENUM statement ends  *)
(* at the first line of the statement, the opening line included, that     *)
(* contains ");": the enum is emitted with the lines up to that one as its *)
(* SQL, and the lines after it are read as outside every statement, so no  *)
(* line of a later statement is in it.  Stated of the first opening line   *)
(* of the file, where the scanner is outside every statement.              *)
(***************************************************************************)
IsFirstEnumHeader(i) ==
    /\ EnumOpens(i)
    /\ \A k \in 1..(i - 1) : ~EnumOpens(k)

FirstEnumClose(i, j) ==
    /\ Contains(input[j], S_CLOSE)
    /\ \A k \in i..(j - 1) : ~Contains(input[k], S_CLOSE)

C21_EnumStatementEnd ==
    pc = "enums" =>
        \A i \in DOMAIN input :
            IsFirstEnumHeader(i) =>
                \A j \in i..Len(input) :
                    FirstEnumClose(i, j) =>
                        /\ enums # <<>>
                        /\ enums[1].SQL = LinesText(i, j)
                        /\ Tail(enums) = parseEnums(SubSeq(input, j + 1, Len(input))).enums

(***************************************************************************)
(* C22: statement starts are recognized case-insensitively and as a line   *)
(* prefix, for the three statement kinds: the tables, enums and foreign    *)
(* keys parsed from the input are those parsed from the same input with    *)
(* its keywords written in upper case, and every table and every enum      *)
(* starts at a line that begins with its keyword.                          *)
(***************************************************************************)
Keywords ==
    <<S_CREATE_TABLE, S_CREATE_TYPE, S_AS_ENUM, S_DROP_HEAD, S_DROP_MID,
      S_ADD_CONSTRAINT, S_FOREIGN_KEY, S_REFERENCES>>

\* s from index i on, every occurrence of kw in any letter case written as kw
RECURSIVE UpperKeywordFrom(_, _, _)
UpperKeywordFrom(s, kw, i) ==
    IF i > Len(s) THEN <<>>
    ELSE IF MatchFoldAt(s, kw, i) THEN kw \o UpperKeywordFrom(s, kw, i + Len(kw))
    ELSE <<s[i]>> \o UpperKeywordFrom(s, kw, i + 1)

RECURSIVE UpperKeywords(_, _)
UpperKeywords(line, k) ==
    IF k > Len(Keywords) THEN line
    ELSE UpperKeywords(UpperKeywordFrom(line, Keywords[k], 1), k + 1)

UpperForm(lines) == [i \in DOMAIN lines |-> UpperKeywords(lines[i], 1)]

NamesOf(ts) == [i \in DOMAIN ts |-> <<ts[i].Schema, ts[i].Name>>]

EndpointsOf(fks) ==
    [i \in DOMAIN fks |-> <<fks[i].FromSchema, fks[i].FromTable, fks[i].ToSchema, fks[i].ToTable>>]

TablesAnyCase == NamesOf(tables) = NamesOf(parseTables(UpperForm(input)))

EnumsAnyCase == NamesOf(enums) = NamesOf(parseEnums(UpperForm(input)).enums)

ForeignKeysAnyCase == EndpointsOf(foreignKeys) = EndpointsOf(parseForeignKeys(UpperForm(input)))

StartsArePrefixes ==
    /\ \A t \in Elems(tables) : MatchFoldAt(HeaderLine(t), S_CREATE_TABLE, 1)
    /\ \A e \in Elems(enums) : MatchFoldAt(ScanLines(e.SQL)[1], S_CREATE_TYPE, 1)

C22_StartsAnyCase ==
    pc = "parsed" => TablesAnyCase /\ EnumsAnyCase /\ ForeignKeysAnyCase /\ StartsArePrefixes

(***************************************************************************)
(* C23: parseForeignKeys returns a ForeignKey for a line                   *)
(*   ADD CONSTRAINT <name> FOREIGN KEY ... REFERENCES <schema>.<table>     *)
(* exactly when some line of the input, before or after it, is             *)
(*   ALTER TABLE IF EXISTS ONLY <s>.<t> DROP CONSTRAINT IF EXISTS <name>;  *)
(* the ForeignKey is from <s>.<t> to <schema>.<table>, and a line whose    *)
(* name no such line records is skipped, the pass going on.                *)
(***************************************************************************)
IsAddLine(line) ==
    LET f == Fields(line)
    IN  /\ Len(f) >= 8
        /\ f[1] = <<"A","D","D">> /\ f[2] = <<"C","O","N","S","T","R","A","I","N","T">>
        /\ f[4] = <<"F","O","R","E","I","G","N">> /\ f[5] = <<"K","E","Y">>
        /\ f[7] = <<"R","E","F","E","R","E","N","C","E","S">>
        /\ Contains(f[8], S_DOT)

AddName(line) == Fields(line)[3]

\* the referenced table as written: the text of the field after REFERENCES up to "("
AddTarget(line) == SplitFirst(Fields(line)[8], <<"(">>)

IsDropLine(line) ==
    LET f == Fields(line)
    IN  /\ Len(f) = 11
        /\ SubSeq(f, 1, 5) = <<<<"A","L","T","E","R">>, <<"T","A","B","L","E">>, <<"I","F">>, <<"E","X","I","S","T","S">>, <<"O","N","L","Y">>>>
        /\ SubSeq(f, 7, 10) = <<<<"D","R","O","P">>, <<"C","O","N","S","T","R","A","I","N","T">>, <<"I","F">>, <<"E","X","I","S","T","S">>>>
        /\ HasPrefix(f[11], S_fk_rails)
        /\ HasSuffix(f[11], <<";">>)

DropName(line) == TrimSuffix(Fields(line)[11], <<";">>)

DropTable(line) == Fields(line)[6]

Recorded(name) == \E k \in DOMAIN input : IsDropLine(input[k]) /\ DropName(input[k]) = name

\* the table of the DROP line that records the name
OwnerOf(name) ==
    DropTable(input[CHOOSE k \in DOMAIN input : IsDropLine(input[k]) /\ DropName(input[k]) = name])

\* the ADD CONSTRAINT lines of the input whose name is recorded, in input order
RecordedAddLines == SelectSeq(input, LAMBDA l : IsAddLine(l) /\ Recorded(AddName(l)))

C23_ForeignKeysByDropLine ==
    pc = "parsed" =>
        /\ Len(foreignKeys) = Len(RecordedAddLines)
        /\ \A i \in DOMAIN foreignKeys :
               /\ foreignKeys[i].SQL = RecordedAddLines[i]
               /\ foreignKeys[i].FromSchema \o S_DOT \o foreignKeys[i].FromTable
                      = OwnerOf(AddName(RecordedAddLines[i]))
               /\ foreignKeys[i].ToSchema \o S_DOT \o foreignKeys[i].ToTable
                      = AddTarget(RecordedAddLines[i])

\* the pass went on over an input with a constraint added before the line that
\* records it and a constraint that no line records
C23_Witness ==
    /\ pc = "parsed"
    /\ foreignKeys # <<>>
    /\ \E i \in DOMAIN input : \E k \in (i + 1)..Len(input) :
           IsAddLine(input[i]) /\ IsDropLine(input[k]) /\ DropName(input[k]) = AddName(input[i])
    /\ \E i \in DOMAIN input : IsAddLine(input[i]) /\ ~Recorded(AddName(input[i]))

(***************************************************************************)
(* C24: deduplication.  The related set holds each (schema, name) at most  *)
(* once, the relevant foreign-key set holds each constraint SQL text at    *)
(* most once, also when the input repeats the line, and, table identities  *)
(* being unique in the input, no table definition (full or stub) and no    *)
(* constraint line is written to the output twice.                         *)
(***************************************************************************)
NoRepeat(s) == \A i, j \in DOMAIN s : s[i] = s[j] => i = j

WrittenTableKeys ==
    LET ws == SelectSeq(outFile.writes, LAMBDA w : w.kind \in {"table", "full", "stub"})
    IN  [i \in DOMAIN ws |-> ws[i].key]

WrittenConstraints ==
    LET ws == SelectSeq(outFile.writes, LAMBDA w : w.kind = "fk")
    IN  [i \in DOMAIN ws |-> ws[i].text]

C24_Deduplicated ==
    NoRepeat(NamesOf(tables)) =>
        /\ NoRepeat(NamesOf(relatedTables))
        /\ NoRepeat([i \in DOMAIN relevantFKs |-> relevantFKs[i].SQL])
        /\ NoRepeat(WrittenTableKeys)
        /\ NoRepeat(WrittenConstraints)

\* a finished run in which one related table is matched by columns of two
\* prefix-matched tables and by a column of its own, and a constraint line that
\* the input holds twice is relevant and written
C24_Witness ==
    /\ pc = "done"
    /\ \E r \in Elems(relatedTables) :
           /\ Cardinality({F \in Elems(filteredTables) : r \in OutboundTargets(F)}) >= 2
           /\ \E F \in Elems(filteredTables) : \E c \in ColumnsOf(r) : c.name = InboundColumn(F)
    /\ \E i, j \in DOMAIN foreignKeys :
           /\ i # j
           /\ foreignKeys[i].SQL = foreignKeys[j].SQL
           /\ foreignKeys[i].SQL \o NL \in Elems(WrittenConstraints)

(***************************************************************************)
(* C25: for a related table that is not whitelisted and whose SQL has no   *)
(* line defining a column id, nothing is written to the output (no write   *)
(* for the table, its header line nowhere in the file); the run goes on to *)
(* its end, the other related tables are written (in full when             *)
(* whitelisted, as a stub when they have a header and an id column), and   *)
(* every relevant constraint is written.                                   *)
(***************************************************************************)
OmittedRelated ==
    {r \in Elems(relatedTables) : ~isWhitelistedTable(r, whitelistTables) /\ ~HasIdColumn(r)}

WritesFor(r) ==
    {w \in Elems(outFile.writes) : w.kind \in {"table", "full", "stub"} /\ w.key = TableKey(r)}

C25_NoIdNothingWritten ==
    (tablePrefix # <<>> /\ pc \in RelatedWrittenPcs) =>
        /\ \A r \in OmittedRelated :
               /\ WritesFor(r) = {}
               /\ ~Contains(FileContents(outFile.writes), HeaderLine(r))
        /\ \A r \in Elems(relatedTables) \ OmittedRelated :
               (isWhitelistedTable(r, whitelistTables) \/ HasPrefix(HeaderLine(r), S_CREATE_TABLE))
                   => WritesFor(r) # {}
        /\ pc = "done" =>
               \A fk \in Elems(relevantFKs) : fk.SQL \o NL \in Elems(WrittenConstraints)

\* a finished run with a related table left out for lack of an id column, another
\* related table written, and a constraint written
C25_Witness ==
    /\ pc = "done"
    /\ OmittedRelated # {}
    /\ \E r \in Elems(relatedTables) \ OmittedRelated : WritesFor(r) # {}
    /\ WrittenConstraints # <<>>

(***************************************************************************)
(* C26: the counts of the final summary line are the numbers written to    *)
(* filtered_tables.sql: the table count is the number of table definitions *)
(* written, full or stub, the enum count the number of enum definitions    *)
(* written, the foreign-key count the number of constraint lines written.  *)
(***************************************************************************)
WrittenEnumCount == Cardinality({i \in DOMAIN outFile.writes : outFile.writes[i].kind = "enum"})

C26_SummaryCounts ==
    (pc = "done" /\ tablePrefix # <<>>) =>
        /\ summary.tables = Len(WrittenTableKeys)
        /\ summary.enums = WrittenEnumCount
        /\ summary.foreignKeys = Len(WrittenConstraints)

(***************************************************************************)
(* C27: the line-oriented variant and the pg_query variant select the same *)
(* tables for the same input, prefix and whitelist: the tables written in  *)
(* full are the same, and so are the related tables written as stubs (the  *)
(* pg_query variant computes no related table and writes no stub).         *)
(***************************************************************************)
FullyEmitted ==
    {TableKey(t) : t \in Elems(filteredTables) \cup WhitelistedRelated}

StubEmitted ==
    {TableKey(t) : t \in Elems(relatedTables) \ WhitelistedRelated}

C27_VariantsAgree ==
    (tablePrefix # <<>> /\ pc \in RelatedPcs) =>
        /\ FullyEmitted = Elems(pgQueryTables(input, tablePrefix, whitelistTables))
        /\ StubEmitted = {}

(***************************************************************************)
(* C28: when every CREATE TABLE statement of the input has balanced        *)
(* parentheses and ends with ");" before the next one opens, on a later    *)
(* line or on its opening line, parseTables returns one Table per          *)
(* statement, in input order, and no Table's SQL holds the opening line of *)
(* another statement.                                                      *)
(***************************************************************************)
TableHeaders == {i \in DOMAIN input : MatchFoldAt(input[i], S_CREATE_TABLE, 1)}

\* the statement opened at line i ends at a line before the next opening line
TerminatedTable(i) ==
    \E j \in i..Len(input) :
        /\ ClosesAt(i, j)
        /\ \A h \in TableHeaders : h > i => h > j

HeaderLines == SelectSeq(input, LAMBDA l : MatchFoldAt(l, S_CREATE_TABLE, 1))

C28_OneTablePerStatement ==
    (pc = "tables" /\ \A i \in TableHeaders : TerminatedTable(i)) =>
        /\ Len(tables) = Len(HeaderLines)
        /\ \A k \in DOMAIN tables :
               /\ HeaderLine(tables[k]) = HeaderLines[k]
               /\ \A m \in DOMAIN HeaderLines :
                      m # k => ~Contains(tables[k].SQL, HeaderLines[m] \o NL)

(***************************************************************************)
(* C29: filtered_tables.sql is created, and an existing one truncated,     *)
(* only after the three parse passes and the filtering: up to os.Create,   *)
(* and in every run that ends with exit code 1, the file is as it was when *)
(* the run started: absent in a first run; in a second run, with the bytes *)
(* the first run left, and there exactly when the first run had a prefix.  *)
(***************************************************************************)
BeforeCreatePcs ==
    {"start", "tables", "enums", "parsed", "filtered", "related", "enumsFound", "selected", "exit1"}

C29_OutputCreatedLast ==
    pc \in BeforeCreatePcs =>
        IF secondRun
        THEN /\ FileContents(outFile.writes) = firstOut
             /\ outFile.exists <=> tablePrefix # <<>>
        ELSE outFile = NoFile

\* a second run ended with exit code 1 before any table was parsed, the output of
\* the first run in place
C29_Witness ==
    /\ pc = "exit1"
    /\ secondRun
    /\ tables = <<>>
    /\ input # <<>>
    /\ firstOut # <<>>
    /\ FileContents(outFile.writes) = firstOut

(***************************************************************************)
(* C30: relationship inference is one hop from the prefix-matched tables.  *)
(* Every related table is linked by the _id naming convention to a         *)
(* prefix-matched table, in one direction or the other; a table linked     *)
(* only to a related table is not in the related set and nothing is        *)
(* written for it.                                                         *)
(***************************************************************************)
\* a column of table a names table b: <b>_id, b's name taken as it is or without
\* its final s, letter case ignored
NamesByColumn(a, b) ==
    \E c \in ColumnsOf(a) :
        ToLower(c.name) \in {ToLower(b.Name) \o S_id_suffix,
                             TrimSuffix(ToLower(b.Name), S_s) \o S_id_suffix}

Linked(a, b) == NamesByColumn(a, b) \/ NamesByColumn(b, a)

OneHop(t) == \E F \in Elems(filteredTables) : Linked(F, t)

\* stated of the related set when findRelatedTables has returned it, and of the
\* file when the run is done
C30_SingleHop ==
    /\ (tablePrefix # <<>> /\ pc = "related") =>
           \A r \in Elems(relatedTables) : OneHop(r)
    /\ (tablePrefix # <<>> /\ pc = "done") =>
           \A t \in Elems(tables) :
               (t \notin Elems(filteredTables) /\ ~OneHop(t)) =>
                   t \notin Elems(relatedTables) /\ WritesFor(t) = {}

\* a finished run in which a table linked to a related table, and to no
\* prefix-matched table, is left out
C30_Witness ==
    /\ pc = "done"
    /\ \E t \in Elems(tables) : \E r \in Elems(relatedTables) :
           /\ t \notin Elems(filteredTables)
           /\ ~OneHop(t)
           /\ Linked(t, r)
           /\ t \notin Elems(relatedTables)
           /\ WritesFor(r) # {}

=============================================================================
